---------------------------- MODULE Spec2Model ----------------------------
(***************************************************************************)
(* A model of vegamm_rust: the VegaStore reconciliation cache              *)
(* (src/src/vega_store.rs), the Binance reference price feed               *)
(* (src/src/binance_ws.rs), the periodic strategy (src/src/strategy.rs),   *)
(* the monitoring handler (src/src/api.rs) and the startup sequence        *)
(* (src/src/main.rs).                                                      *)
(*                                                                         *)
(* Specifications:                                                         *)
(*   Spec          the whole process from main's first line, one action    *)
(*                 per handler                                             *)
(*   SpecOrders    save_orders driven by the orders stream                 *)
(*   SpecAccounts  save_accounts driven by the accounts stream             *)
(*   SpecPositions save_positions driven by the positions stream           *)
(*   SpecStoreLock the store critical sections, one step per batch entry,  *)
(*                 against the strategy and the API handler                *)
(*   SpecTicker    the ticker loop, one action per message                 *)
(*   SpecFeed      the ticker loop, RefPrice::set one field per step,      *)
(*                 against the strategy and the API handler                *)
(*   SpecStrategy  run_strategy one lock() at a time, with what it read    *)
(*                 and the batch it built, against the positions and       *)
(*                 accounts streams and the ticker loop                    *)
(*   SpecFeedEnd   the feed task from its connection to its return on an   *)
(*                 error, against the strategy and its batches             *)
(*   SpecLocks     every lock() and every drop of a guard as a step of     *)
(*                 its own, for all the tasks                              *)
(***************************************************************************)
EXTENDS Integers, Sequences, FiniteSets, TLC

VARIABLES
    pc,              \* task -> where the task is
    market,          \* VegaStore.market
    market_data,     \* VegaStore.market_data
    accounts,        \* VegaStore.accounts : key string -> AccountBalance
    orders,          \* VegaStore.orders   : order id -> Order
    position,        \* VegaStore.position : Option<Position>
    assets,          \* VegaStore.assets   : asset id -> Asset
    storeBuilt,      \* VegaStore::new has returned Ok
    storeLock,       \* the Mutex around the VegaStore
    rp,              \* RefPrice { bid_price, ask_price }
    rpLock,          \* the Mutex around the RefPrice
    batch,           \* the save_x call in progress: its task, the entries left, those applied
    mdPending,       \* market data entries of the current frame not yet saved
    feedPending,     \* the (bid, ask) the feed is writing with RefPrice::set
    newStep,         \* the fetch VegaStore::new is at (1..6)
    delivered,       \* history: order id -> the last order the server delivered for it
    lastOrdersFrame, \* history: tag and ids of the last orders frame handled
    acctDelivered,   \* history: (type, asset, market) -> the last balance delivered for it
    posDelivered,    \* history: the last position the server delivered
    lastPositions,   \* history: the list of the last positions frame handled
    tornRead,        \* history: a reader read the store while a batch was half applied
    rpApplied,       \* history: the (bid, ask) of the last ticker frame applied
    rpRead,          \* history: what the last RefPrice::get returned, and what was applied then
    lastFrame,       \* history: the last ticker frame the feed loop read, and the pair before it
    fetchFailed,     \* history: a startup fetch returned an error
    run,             \* history: the strategy runs in progress, and what the run has read
    sent,            \* history: the last batch handed to clt.send, and the run it came from
    streamFault,     \* history: an open reconciler stream delivered an error or ended
    coexisted        \* history: the (position, accounts) pairs the store has held

vars == <<pc, market, market_data, accounts, orders, position, assets,
          storeBuilt, storeLock, rp, rpLock, batch, mdPending,
          feedPending, newStep, delivered, lastOrdersFrame, acctDelivered,
          posDelivered, lastPositions, tornRead, rpApplied, rpRead,
          lastFrame, fetchFailed, run, sent, streamFault, coexisted>>

-----------------------------------------------------------------------------
(* Bounds *)

\* longest list in one stream frame or one startup response
MaxBatch == 2

-----------------------------------------------------------------------------
(* Generic helpers *)

None == <<>>

Some(x) == <<x>>

SeqsUpTo(S, n) == UNION {[1..k -> S] : k \in 0..n}

Max(S) == CHOOSE x \in S : \A y \in S : y <= x

MapInsert(m, k, v) == [x \in (DOMAIN m) \cup {k} |-> IF x = k THEN v ELSE m[x]]

MapRemove(m, k) == [x \in (DOMAIN m) \ {k} |-> m[x]]

EmptyMap == [x \in {} |-> 0]

Values(m) == {m[k] : k \in DOMAIN m}

-----------------------------------------------------------------------------
(* std::sync::Mutex: lock() blocks while another guard is alive; it returns *)
(* Err (and .unwrap() panics) once a guard was dropped during a panic.      *)

NoTask == "none"

NewMutex == [holder |-> NoTask, poisoned |-> FALSE]

CanLock(m) == m.holder = NoTask

Acquire(m, t) == [m EXCEPT !.holder = t]

ReleaseKeepsGuard(m) == m

Release(m) == [m EXCEPT !.holder = NoTask]

ReleasePanickingUnpoisoned(m) == [holder |-> NoTask, poisoned |-> m.poisoned]

ReleasePanicking(m) == [holder |-> NoTask, poisoned |-> TRUE]

-----------------------------------------------------------------------------
(* Orders *)

OrderIds == {"A", "B"}

\* prost's Status::from_i32: the enum has the values 0..8
Status_from_i32(n) ==
    IF n = 0 THEN Some("Unspecified")
    ELSE IF n = 1 THEN Some("Active")
    ELSE IF n = 2 THEN Some("Expired")
    ELSE IF n = 3 THEN Some("Cancelled")
    ELSE IF n = 4 THEN Some("Stopped")
    ELSE IF n = 5 THEN Some("Filled")
    ELSE IF n = 6 THEN Some("Rejected")
    ELSE IF n = 7 THEN Some("PartiallyFilled")
    ELSE IF n = 8 THEN Some("Parked")
    ELSE None

Order(i, s, p) == [id |-> i, status |-> s, price |-> p]

\* Order.status is the wire value (i32): 1 is STATUS_ACTIVE, 5 STATUS_FILLED,
\* 99 a value the Status enum does not have
ActiveOrders == {Order(i, 1, p) : i \in OrderIds, p \in {1, 2}}

RecognisedOrders == ActiveOrders \cup {Order(i, 5, 1) : i \in OrderIds}

AllOrders == RecognisedOrders \cup {Order(i, 99, 1) : i \in OrderIds}

\* one iteration of the loop of save_orders; acc.panicked is the unwrap() failing
save_orders_keeps_inactive(acc, o) ==
    IF acc.panicked THEN acc
    ELSE IF Status_from_i32(o.status) = None THEN [acc EXCEPT !.panicked = TRUE]
    ELSE [acc EXCEPT !.map = MapInsert(acc.map, o.id, o)]

save_orders_entry(acc, o) ==
    IF acc.panicked THEN acc
    ELSE IF Status_from_i32(o.status) = None THEN [acc EXCEPT !.panicked = TRUE]
    ELSE IF Status_from_i32(o.status) # Some("Active")
         THEN [acc EXCEPT !.map = MapRemove(acc.map, o.id)]
         ELSE [acc EXCEPT !.map = MapInsert(acc.map, o.id, o)]

RECURSIVE save_orders_from(_, _)
save_orders_from(acc, list) ==
    IF list = <<>> THEN acc
    ELSE save_orders_from(save_orders_entry(acc, Head(list)), Tail(list))

save_orders(map, list) == save_orders_from([map |-> map, panicked |-> FALSE], list)

\* VegaStore::new: every order of the list_orders response is inserted
RECURSIVE new_orders_from(_, _)
new_orders_from(map, edges) ==
    IF edges = <<>> THEN map
    ELSE new_orders_from(MapInsert(map, Head(edges).id, Head(edges)), Tail(edges))

new_orders(edges) == new_orders_from(EmptyMap, edges)

get_orders == Values(orders)

\* a stream item: Err(status), or Ok(resp) with resp.response None,
\* Some(Snapshot(list)) or Some(Updates(list))
ErrItem == [res |-> "Err", kind |-> "None", list |-> <<>>]

EmptyItem == [res |-> "Ok", kind |-> "None", list |-> <<>>]

SnapshotItem(l) == [res |-> "Ok", kind |-> "Snapshot", list |-> l]

UpdatesItem(l) == [res |-> "Ok", kind |-> "Updates", list |-> l]

Items(Lists) ==
    {ErrItem, EmptyItem} \cup {SnapshotItem(l) : l \in Lists} \cup {UpdatesItem(l) : l \in Lists}

CarriesList(item) == item.res = "Ok" /\ item.kind \in {"Snapshot", "Updates"}

\* the match of update_orders_forever on one stream item
orders_frame_snapshot_replaces(map, item) ==
    IF item.kind = "Snapshot" THEN save_orders(EmptyMap, item.list)
    ELSE save_orders(map, item.list)

orders_frame(map, item) ==
    IF item.kind = "Snapshot" THEN save_orders(map, item.list)
    ELSE IF item.kind = "Updates" THEN save_orders(map, item.list)
    ELSE [map |-> map, panicked |-> FALSE]

IdsOf(list) == {list[i].id : i \in 1..Len(list)}

\* history: the last order of the list with each id replaces what was delivered before
Deliver(d, list) ==
    [id \in OrderIds |->
        LET at == {i \in 1..Len(list) : list[i].id = id}
        IN  IF at = {} THEN d[id] ELSE Some(list[Max(at)])]

NoFrame == [tag |-> "None", ids |-> {}]

-----------------------------------------------------------------------------
(* Accounts.  Strings that take part in format!() are sequences of          *)
(* characters, so that concatenation is what it is in the code.             *)

DigitChar(d) ==
    CASE d = 0 -> "0" [] d = 1 -> "1" [] d = 2 -> "2" [] d = 3 -> "3" [] d = 4 -> "4"
      [] d = 5 -> "5" [] d = 6 -> "6" [] d = 7 -> "7" [] d = 8 -> "8" [] d = 9 -> "9"

\* Display of a non-negative i32
RECURSIVE FormatInt(_)
FormatInt(n) ==
    IF n < 10 THEN <<DigitChar(n)>> ELSE FormatInt(n \div 10) \o <<DigitChar(n % 10)>>

IsDigit(c) == \E d \in 0..9 : DigitChar(d) = c

DigitVal(c) == CHOOSE d \in 0..9 : DigitChar(d) = c

RECURSIVE ParseDigits(_, _)
ParseDigits(acc, str) ==
    IF str = <<>> THEN acc
    ELSE ParseDigits(acc * 10 + DigitVal(Head(str)), Tail(str))

ParseF64_or_zero(str) ==
    IF str # <<>> /\ \A i \in 1..Len(str) : IsDigit(str[i])
    THEN Some(ParseDigits(0, str)) ELSE Some(0)

\* str.parse::<f64>() on the strings of the frames above: the value of a string
\* of digits, an error on the empty string or on another character
ParseF64(str) ==
    IF str # <<>> /\ \A i \in 1..Len(str) : IsDigit(str[i])
    THEN Some(ParseDigits(0, str)) ELSE None

AccountBalance(t, a, m, b) ==
    [type |-> t, asset |-> a, market_id |-> m, balance |-> b, owner |-> "pubkey"]

\* format!("{}{}{}", a.type, a.asset, a.market_id)
account_key(t, a, m) == FormatInt(t) \o a \o m

TripleOf(a) == <<a.type, a.asset, a.market_id>>

\* (account type, asset id, market id) triples of the accounts the server sends
AcctTriples ==
    { <<1, <<"2", "a">>, <<>>>>, <<12, <<"a">>, <<>>>>,
      <<4, <<"a">>, <<"m">>>>, <<4, <<"a", "m">>, <<>>>> }

AcctBalances == { <<"5">>, <<"7">> }

AllAccounts == {AccountBalance(t[1], t[2], t[3], b) : t \in AcctTriples, b \in AcctBalances}

save_accounts_entry(map, a) == MapInsert(map, account_key(a.type, a.asset, a.market_id), a)

RECURSIVE save_accounts(_, _)
save_accounts(map, list) ==
    IF list = <<>> THEN map
    ELSE save_accounts(save_accounts_entry(map, Head(list)), Tail(list))

\* VegaStore::new builds the map with the same key
new_accounts(edges) == save_accounts(EmptyMap, edges)

get_accounts == Values(accounts)

get_account(typ, asset, mkt) ==
    IF account_key(typ, asset, mkt) \in DOMAIN accounts
    THEN Some(accounts[account_key(typ, asset, mkt)])
    ELSE None

accounts_frame(map, item) ==
    IF item.kind = "Snapshot" THEN save_accounts(map, item.list)
    ELSE IF item.kind = "Updates" THEN save_accounts(map, item.list)
    ELSE map

\* history: the last balance of the list with each triple
DeliverAccounts(d, list) ==
    [t \in AcctTriples |->
        LET at == {i \in 1..Len(list) : TripleOf(list[i]) = t}
        IN  IF at = {} THEN d[t] ELSE Some(list[Max(at)])]

-----------------------------------------------------------------------------
(* Positions *)

Position(v, p) == [open_volume |-> v, average_entry_price |-> p]

AllPositions == {Position(2, <<"5", "0">>), Position(-1, <<"4">>)}

save_positions_first_wins(pos, list) ==
    IF list = <<>> THEN pos ELSE Some(Head(list))

RECURSIVE save_positions(_, _)
save_positions(pos, list) ==
    IF list = <<>> THEN pos
    ELSE save_positions(Some(Head(list)), Tail(list))

get_position == position

positions_frame(pos, item) ==
    IF item.kind = "Snapshot" THEN save_positions(pos, item.list)
    ELSE IF item.kind = "Updates" THEN save_positions(pos, item.list)
    ELSE pos

\* the list_positions response: positions None, or Some(edges), each edge's node
\* an Option<Position>
PositionResponses ==
    {None} \cup {Some(e) : e \in SeqsUpTo({None} \cup {Some(p) : p \in AllPositions}, MaxBatch)}

\* VegaStore::new, the match on the response; panics on two edges or more
new_position_panics(resp) == resp # None /\ Len(resp[1]) > 1

new_position(resp) ==
    IF resp = None THEN None
    ELSE IF Len(resp[1]) = 0 THEN None
    ELSE resp[1][1]

-----------------------------------------------------------------------------
(* Market data, market, assets *)

AllMarketData == {"md1", "md2"}

save_market_data(md) == md

TheMarket ==
    [id |-> "mkt", decimal_places |-> 1, position_decimal_places |-> 1,
     settlement_asset |-> <<"a">>]

Asset(i, d) == [id |-> i, decimals |-> d]

AllAssets == {Asset(<<"a">>, 1)}

RECURSIVE new_assets_from(_, _)
new_assets_from(map, edges) ==
    IF edges = <<>> THEN map
    ELSE new_assets_from(MapInsert(map, Head(edges).id, Head(edges)), Tail(edges))

new_assets(edges) == new_assets_from(EmptyMap, edges)

-----------------------------------------------------------------------------
(* The arithmetic of strategy.rs.  An f64 is modelled by the rational it     *)
(* stands for, a pair <<numerator, denominator>> in lowest terms, and each   *)
(* operation by the exact one: on the prices, volumes and balances of this   *)
(* model the integers the code submits are the same under IEEE rounding.     *)

Abs(n) == IF n < 0 THEN -n ELSE n

RECURSIVE GCD(_, _)
GCD(a, b) == IF b = 0 THEN a ELSE GCD(b, a % b)

\* the f64 n / d, d > 0
F64(n, d) ==
    LET g == GCD(Abs(n), d)
    IN  IF n = 0 THEN <<0, 1>> ELSE <<n \div g, d \div g>>

F64Add(x, y) == F64(x[1] * y[2] + y[1] * x[2], x[2] * y[2])

F64Sub(x, y) == F64(x[1] * y[2] - y[1] * x[2], x[2] * y[2])

F64Mul(x, y) == F64(x[1] * y[1], x[2] * y[2])

\* x / y for y > 0
F64Div(x, y) == F64(x[1] * y[2], x[2] * y[1])

\* the integer part, towards zero
F64Trunc(x) == IF x[1] >= 0 THEN x[1] \div x[2] ELSE -((-x[1]) \div x[2])

RECURSIVE Pow10(_)
Pow10(k) == IF k = 0 THEN 1 ELSE 10 * Pow10(k - 1)

\* Decimals::new
Decimals_new(mkt, asset) ==
    [position_factor |-> F64(Pow10(mkt.position_decimal_places), 1),
     price_factor |-> F64(Pow10(mkt.decimal_places), 1),
     asset_factor |-> F64(Pow10(asset.decimals), 1)]

from_asset_precision(d, amount) == F64Div(amount, d.asset_factor)

from_market_price_precision(d, price) == F64Div(price, d.price_factor)

from_market_position_precision(d, pos) == F64Div(pos, d.position_factor)

to_market_price_precision(d, price) == F64Mul(price, d.price_factor)

to_market_position_precision(d, pos) == F64Mul(pos, d.position_factor)

\* (vol, aep) of an Option<Position>; None where parse().unwrap() panics
volume_and_average_entry_price(d, pos) ==
    IF pos = None THEN Some(<<F64(0, 1), F64(0, 1)>>)
    ELSE LET aep == ParseF64(pos[1].average_entry_price)
         IN  IF aep = None THEN None
             ELSE Some(<<from_market_position_precision(d, F64(pos[1].open_volume, 1)),
                         from_market_price_precision(d, F64(aep[1], 1))>>)

\* the fold of get_pubkey_balance over the accounts under `keys`: an account of
\* another asset or owner is passed over unparsed; None where parse().unwrap()
\* panics
RECURSIVE fold_balance(_, _, _, _)
fold_balance(map, keys, pubkey, asset_id) ==
    IF keys = {} THEN Some(0)
    ELSE LET k == CHOOSE x \in keys : TRUE
             acc == map[k]
             rest == fold_balance(map, keys \ {k}, pubkey, asset_id)
         IN  IF acc.asset # asset_id \/ acc.owner # pubkey THEN rest
             ELSE IF rest = None \/ ParseF64(acc.balance) = None THEN None
             ELSE Some(rest[1] + ParseF64(acc.balance)[1])

get_pubkey_balance(map, pubkey, asset_id, d) ==
    LET sum == fold_balance(map, DOMAIN map, pubkey, asset_id)
    IN  IF sum = None THEN None ELSE Some(from_asset_precision(d, F64(sum[1], 1)))

bid_volume_adds(balance, open_volume, aep) ==
    F64Add(F64Mul(balance, F64(1, 2)), F64Mul(open_volume, aep))

\* balance * 0.5 - open_volume * aep
bid_volume(balance, open_volume, aep) ==
    F64Sub(F64Mul(balance, F64(1, 2)), F64Mul(open_volume, aep))

\* balance * 0.5 + open_volume * aep
offer_volume(balance, open_volume, aep) ==
    F64Add(F64Mul(balance, F64(1, 2)), F64Mul(open_volume, aep))

price_buy_percent(ref_price, f) == F64Mul(ref_price, F64Sub(F64(1, 1), F64Mul(f, F64(2, 100))))

price_buy(ref_price, f) == F64Mul(ref_price, F64Sub(F64(1, 1), F64Mul(f, F64(2, 1000))))

price_sell(ref_price, f) == F64Mul(ref_price, F64Add(F64(1, 1), F64Mul(f, F64(2, 1000))))

\* BigUint::from_f64: None on a negative value, else the integer part
BigUint_from_f64(x) == IF x[1] < 0 THEN None ELSE Some(F64Trunc(x))

as_u64_of_magnitude(x) == F64Trunc(<<Abs(x[1]), x[2]>>)

\* `as u64`: the integer part, 0 for a negative value
as_u64(x) == IF x[1] < 0 THEN 0 ELSE F64Trunc(x)

LevelsFour == <<1, 2, 3, 4>>

\* vec![1, 2, 3, 4, 5]
Levels == <<1, 2, 3, 4, 5>>

OrderSubmission(market_id, p, size, side) ==
    [market_id |-> market_id, price |-> FormatInt(p), size |-> size, side |-> side,
     time_in_force |-> "Gtc", expires_at |-> 0, type |-> "Limit",
     reference |-> "VEGA_RUST_MM_SIMPLE", pegged_order |-> None]

\* the orders of one side; None where BigUint::from_f64(..).unwrap() panics
get_order_submission(d, ref_price, side, market_id, target_volume) ==
    LET size == F64Mul(F64Div(target_volume, F64(5, 1)), ref_price)
        price_f(f) == IF side = "Buy" THEN price_buy(ref_price, f) ELSE price_sell(ref_price, f)
        p(i) == BigUint_from_f64(to_market_price_precision(d, price_f(F64(Levels[i], 1))))
    IN  IF \E i \in 1..Len(Levels) : p(i) = None THEN None
        ELSE Some([i \in 1..Len(Levels) |->
                     OrderSubmission(market_id, p(i)[1],
                                     as_u64(to_market_position_precision(d, size)), side)])

\* the BatchMarketInstructions of run_strategy
BatchMarketInstructions(market_id, submissions) ==
    [cancellations |-> <<[market_id |-> market_id, order_id |-> ""]>>,
     amendments |-> <<>>,
     submissions |-> submissions]

\* run_strategy from the values it read to the batch it sends, with its
\* balance and its two volumes; None where it panics on the way
run_strategy_batch(mkt, asset, ref, pos, accts) ==
    LET d == Decimals_new(mkt, asset)
        va == volume_and_average_entry_price(d, pos)
        balance == get_pubkey_balance(accts, "pubkey", asset.id, d)
    IN  IF va = None \/ balance = None THEN None
        ELSE LET bid == bid_volume(balance[1], va[1][1], va[1][2])
                 offer == offer_volume(balance[1], va[1][1], va[1][2])
                 buys == get_order_submission(d, F64(ref[1], 1), "Buy", mkt.id, bid)
                 sells == get_order_submission(d, F64(ref[2], 1), "Sell", mkt.id, offer)
             IN  IF buys = None \/ sells = None THEN None
                 ELSE Some([balance |-> balance[1], bid_volume |-> bid, offer_volume |-> offer,
                            batch |-> BatchMarketInstructions(mkt.id, buys[1] \o sells[1])])

-----------------------------------------------------------------------------
(* Tasks.  main runs the startup sequence; the others are tokio tasks.      *)

Reconcilers == {"orders", "market_data", "positions", "accounts"}

Tasks == {"main", "feed", "api", "strategy"} \cup Reconcilers

\* main returned an error or panicked: the process is gone, and its tasks with it
Running == pc["main"] # "exit"

constStore == <<market, assets, storeBuilt>>

feedVars == <<rp, rpLock, feedPending, rpApplied>>

startVars == <<newStep, fetchFailed>>

ordHist == <<delivered, lastOrdersFrame>>

posHist == <<posDelivered, lastPositions>>

runHist == <<run, sent, streamFault, coexisted>>

\* the history variables the actions of the program do not mention: each
\* specification says how it keeps them
hist == <<delivered, lastOrdersFrame, acctDelivered, posDelivered, lastPositions,
          rpRead, lastFrame, run, sent, streamFault, coexisted>>

\* every task past its setup: the reconcilers wait for a stream item, the feed for
\* a ticker frame, the handler for a request, the strategy for its timer
StreamingPc ==
    [t \in Tasks |->
        IF t \in Reconcilers THEN "next"
        ELSE IF t = "main" THEN "loop"
        ELSE IF t = "feed" THEN "read"
        ELSE IF t = "api" THEN "idle"
        ELSE "tick"]

NoBatch == [owner |-> NoTask, rest |-> <<>>, applied |-> 0]

NoOrders == [id \in OrderIds |-> None]

NoAccounts == [t \in AcctTriples |-> None]

NoRead == [got |-> <<0, 0>>, applied |-> <<0, 0>>]

NoTicker == [frame |-> None, first |-> FALSE, before |-> <<0, 0>>]

\* no strategy run in progress
NoRun == [active |-> 0, ref |-> <<0, 0>>, feed |-> "none", position |-> None,
          accounts |-> EmptyMap]

\* the parts of the state a specification does not touch
InitFeedSide ==
    /\ rp = [bid_price |-> 0, ask_price |-> 0]
    /\ rpLock = NewMutex
    /\ feedPending = <<0, 0>>
    /\ rpApplied = <<0, 0>>
    /\ rpRead = NoRead
    /\ lastFrame = NoTicker

InitFine ==
    /\ batch = NoBatch
    /\ tornRead = FALSE
    /\ mdPending = <<>>
    /\ run = NoRun
    /\ sent = None
    /\ streamFault = FALSE
    /\ coexisted = {}

\* the store as VegaStore::new returned it
InitBuilt ==
    /\ storeBuilt = TRUE
    /\ storeLock = NewMutex
    /\ newStep = 7
    /\ fetchFailed = FALSE
    /\ market = TheMarket
    /\ assets = new_assets(<<Asset(<<"a">>, 1)>>)

InitStarted ==
    /\ pc = StreamingPc
    /\ InitBuilt

InitNoOrders ==
    /\ orders = EmptyMap
    /\ delivered = NoOrders
    /\ lastOrdersFrame = NoFrame

InitNoAccounts ==
    /\ accounts = EmptyMap
    /\ acctDelivered = NoAccounts

InitNoPosition ==
    /\ position = None
    /\ posDelivered = None
    /\ lastPositions = None

-----------------------------------------------------------------------------
(* The stream reconcilers, one action per stream item: the whole match,     *)
(* store.lock().unwrap().save_x(list) included.                             *)

update_orders_item(item) ==
    /\ Running
    /\ pc["orders"] = "next"
    /\ IF CarriesList(item)
       THEN /\ CanLock(storeLock)
            /\ IF storeLock.poisoned
               THEN /\ pc' = [pc EXCEPT !["orders"] = "panicked"]
                    /\ UNCHANGED <<orders, storeLock>>
               ELSE LET r == orders_frame(orders, item)
                    IN  /\ orders' = r.map
                        /\ storeLock' = IF r.panicked
                                        THEN ReleasePanicking(Acquire(storeLock, "orders"))
                                        ELSE Release(Acquire(storeLock, "orders"))
                        /\ pc' = IF r.panicked THEN [pc EXCEPT !["orders"] = "panicked"] ELSE pc
       ELSE UNCHANGED <<pc, orders, storeLock>>
    /\ UNCHANGED <<constStore, market_data, accounts, position, feedVars, batch,
                   tornRead, mdPending, startVars>>

update_accounts_item(item) ==
    /\ Running
    /\ pc["accounts"] = "next"
    /\ IF CarriesList(item)
       THEN /\ CanLock(storeLock)
            /\ IF storeLock.poisoned
               THEN /\ pc' = [pc EXCEPT !["accounts"] = "panicked"]
                    /\ UNCHANGED <<accounts, storeLock>>
               ELSE /\ accounts' = accounts_frame(accounts, item)
                    /\ storeLock' = Release(Acquire(storeLock, "accounts"))
                    /\ UNCHANGED pc
       ELSE UNCHANGED <<pc, accounts, storeLock>>
    /\ UNCHANGED <<constStore, market_data, orders, position, feedVars, batch,
                   tornRead, mdPending, startVars>>

update_position_item(item) ==
    /\ Running
    /\ pc["positions"] = "next"
    /\ IF CarriesList(item)
       THEN /\ CanLock(storeLock)
            /\ IF storeLock.poisoned
               THEN /\ pc' = [pc EXCEPT !["positions"] = "panicked"]
                    /\ UNCHANGED <<position, storeLock>>
               ELSE /\ position' = positions_frame(position, item)
                    /\ storeLock' = Release(Acquire(storeLock, "positions"))
                    /\ UNCHANGED pc
       ELSE UNCHANGED <<pc, position, storeLock>>
    /\ UNCHANGED <<constStore, market_data, orders, accounts, feedVars, batch,
                   tornRead, mdPending, startVars>>

\* update_market_data_forever: item.unwrap(), then the for loop over its entries
update_market_data_item(item) ==
    /\ Running
    /\ pc["market_data"] = "next"
    /\ IF item.res = "Err"
       THEN /\ pc' = [pc EXCEPT !["market_data"] = "panicked"]
            /\ UNCHANGED mdPending
       ELSE /\ mdPending' = item.list
            /\ pc' = IF item.list = <<>> THEN pc ELSE [pc EXCEPT !["market_data"] = "saving"]
    /\ UNCHANGED <<constStore, market_data, orders, accounts, position, storeLock,
                   feedVars, batch, tornRead, startVars>>

\* one iteration of that loop: store.lock().unwrap().save_market_data(md.clone())
update_market_data_save ==
    /\ Running
    /\ pc["market_data"] = "saving"
    /\ CanLock(storeLock)
    /\ IF storeLock.poisoned
       THEN /\ pc' = [pc EXCEPT !["market_data"] = "panicked"]
            /\ UNCHANGED <<market_data, mdPending, storeLock>>
       ELSE /\ market_data' = save_market_data(Head(mdPending))
            /\ mdPending' = Tail(mdPending)
            /\ storeLock' = Release(Acquire(storeLock, "market_data"))
            /\ pc' = IF Tail(mdPending) = <<>> THEN [pc EXCEPT !["market_data"] = "next"] ELSE pc
    /\ UNCHANGED <<constStore, orders, accounts, position, feedVars, batch,
                   tornRead, startVars>>

MarketDataItems ==
    {ErrItem} \cup {[res |-> "Ok", kind |-> "None", list |-> l] : l \in SeqsUpTo(AllMarketData, MaxBatch)}

\* history of an orders item: it is recorded when save_orders is called with it
HistOrders(item) ==
    IF CarriesList(item) /\ ~storeLock.poisoned
    THEN /\ delivered' = Deliver(delivered, item.list)
         /\ lastOrdersFrame' = [tag |-> item.kind, ids |-> IdsOf(item.list)]
    ELSE UNCHANGED ordHist

HistAccounts(item) ==
    IF CarriesList(item) /\ ~storeLock.poisoned
    THEN acctDelivered' = DeliverAccounts(acctDelivered, item.list)
    ELSE UNCHANGED acctDelivered

HistPositions(item) ==
    IF CarriesList(item) /\ ~storeLock.poisoned
    THEN /\ posDelivered' = IF item.list = <<>> THEN posDelivered
                            ELSE Some(item.list[Len(item.list)])
         /\ lastPositions' = Some(item.list)
    ELSE UNCHANGED posHist

-----------------------------------------------------------------------------
(* SpecOrders: the orders cache as VegaStore::new leaves it (the response   *)
(* of list_orders with live_only), then any sequence of orders stream items *)

InitOrders ==
    /\ InitStarted
    /\ InitFeedSide
    /\ InitFine
    /\ \E edges \in SeqsUpTo(ActiveOrders, MaxBatch) :
          /\ orders = new_orders(edges)
          /\ delivered = Deliver(NoOrders, edges)
    /\ lastOrdersFrame = NoFrame
    /\ market_data = "md0"
    /\ InitNoAccounts
    /\ InitNoPosition

NextOrders ==
    \E item \in Items(SeqsUpTo(AllOrders, MaxBatch)) :
        /\ update_orders_item(item)
        /\ HistOrders(item)
        /\ UNCHANGED <<acctDelivered, posHist, rpRead, lastFrame, runHist>>

SpecOrders == InitOrders /\ [][NextOrders]_vars

-----------------------------------------------------------------------------
(* SpecAccounts: the accounts cache as VegaStore::new leaves it, then any    *)
(* sequence of accounts stream items                                         *)

InitAccounts ==
    /\ InitStarted
    /\ InitFeedSide
    /\ InitFine
    /\ InitNoOrders
    /\ market_data = "md0"
    /\ \E edges \in SeqsUpTo(AllAccounts, MaxBatch) :
          /\ accounts = new_accounts(edges)
          /\ acctDelivered = DeliverAccounts(NoAccounts, edges)
    /\ InitNoPosition

NextAccounts ==
    \E item \in Items(SeqsUpTo(AllAccounts, MaxBatch)) :
        /\ update_accounts_item(item)
        /\ HistAccounts(item)
        /\ UNCHANGED <<ordHist, posHist, rpRead, lastFrame, runHist>>

SpecAccounts == InitAccounts /\ [][NextAccounts]_vars

-----------------------------------------------------------------------------
(* SpecPositions: position and market data as VegaStore::new leaves them,    *)
(* then any sequence of items on their two streams                           *)

InitPositions ==
    /\ InitStarted
    /\ InitFeedSide
    /\ InitFine
    /\ InitNoOrders
    /\ InitNoAccounts
    /\ market_data \in AllMarketData
    /\ \E resp \in PositionResponses :
          /\ ~new_position_panics(resp)
          /\ position = new_position(resp)
          /\ posDelivered = new_position(resp)
    /\ lastPositions = None

NextPositions ==
    \/ \E item \in Items(SeqsUpTo(AllPositions, MaxBatch)) :
          /\ update_position_item(item)
          /\ HistPositions(item)
          /\ UNCHANGED <<ordHist, acctDelivered, rpRead, lastFrame, runHist>>
    \/ \E item \in MarketDataItems : update_market_data_item(item) /\ UNCHANGED hist
    \/ update_market_data_save /\ UNCHANGED hist

SpecPositions == InitPositions /\ [][NextPositions]_vars

-----------------------------------------------------------------------------
(* Readers of the store.  Each store.lock().unwrap().get_x() is one step:    *)
(* lock() blocks while a guard is alive, unwrap() panics on a poisoned lock, *)
(* the guard is dropped at the end of the statement.                         *)

\* the batch of `writer` is applied in part at this moment
HalfApplied(writer) == batch.owner = writer /\ batch.applied > 0 /\ batch.rest # <<>>

\* task t reads the collection that `writer` saves, then goes to `next`
StoreGet(t, writer, next, onPanic) ==
    /\ CanLock(storeLock)
    /\ IF storeLock.poisoned
       THEN /\ pc' = [pc EXCEPT ![t] = onPanic]
            /\ UNCHANGED <<storeLock, tornRead>>
       ELSE /\ storeLock' = Release(Acquire(storeLock, t))
            /\ tornRead' = (tornRead \/ HalfApplied(writer))
            /\ pc' = [pc EXCEPT ![t] = next]

\* RefPrice::get under rp.lock().unwrap()
RefPrice_get(r) == <<r.bid_price, r.ask_price>>

RefGet(t, next, onPanic) ==
    /\ CanLock(rpLock)
    /\ IF rpLock.poisoned
       THEN /\ pc' = [pc EXCEPT ![t] = onPanic]
            /\ UNCHANGED rpLock
       ELSE /\ rpLock' = Release(Acquire(rpLock, t))
            /\ pc' = [pc EXCEPT ![t] = next]

\* history of a RefPrice::get: what it returned, and the last pair applied then
HistRefGet ==
    IF rpLock.poisoned THEN UNCHANGED rpRead
    ELSE rpRead' = [got |-> RefPrice_get(rp), applied |-> rpApplied]

storeData == <<market, market_data, accounts, orders, position, assets, storeBuilt>>

-----------------------------------------------------------------------------
(* strategy::start and run_strategy *)

strategy_tick_overlapping ==
    /\ Running
    /\ pc["strategy"] \in {"tick", "send"}
    /\ pc' = [pc EXCEPT !["strategy"] = "get_market"]
    /\ UNCHANGED <<storeData, storeLock, feedVars, batch, tornRead, mdPending, startVars>>

\* interval.tick() fires: run_strategy starts
strategy_tick ==
    /\ Running
    /\ pc["strategy"] = "tick"
    /\ pc' = [pc EXCEPT !["strategy"] = "get_market"]
    /\ UNCHANGED <<storeData, storeLock, feedVars, batch, tornRead, mdPending, startVars>>

strategy_get_market ==
    /\ Running
    /\ pc["strategy"] = "get_market"
    /\ StoreGet("strategy", NoTask, "get_asset", "panicked")
    /\ UNCHANGED <<storeData, feedVars, batch, mdPending, startVars>>

\* get_asset indexes the map: an unknown id panics with the guard alive
strategy_get_asset ==
    /\ Running
    /\ pc["strategy"] = "get_asset"
    /\ CanLock(storeLock)
    /\ IF storeLock.poisoned
       THEN /\ pc' = [pc EXCEPT !["strategy"] = "panicked"]
            /\ UNCHANGED storeLock
       ELSE IF market.settlement_asset \in DOMAIN assets
            THEN /\ storeLock' = Release(Acquire(storeLock, "strategy"))
                 /\ pc' = [pc EXCEPT !["strategy"] = "get_ref"]
            ELSE /\ storeLock' = ReleasePanicking(Acquire(storeLock, "strategy"))
                 /\ pc' = [pc EXCEPT !["strategy"] = "panicked"]
    /\ UNCHANGED <<storeData, feedVars, batch, tornRead, mdPending, startVars>>

strategy_get_ref_gated ==
    /\ Running
    /\ pc["strategy"] = "get_ref"
    /\ CanLock(rpLock)
    /\ ~rpLock.poisoned
    /\ rpLock' = Release(Acquire(rpLock, "strategy"))
    /\ pc' = [pc EXCEPT !["strategy"] = IF RefPrice_get(rp) = <<0, 0>> THEN "tick"
                                         ELSE "get_position"]
    /\ UNCHANGED <<storeData, storeLock, rp, feedPending, rpApplied, batch, tornRead,
                   mdPending, startVars>>

strategy_get_ref_needs_feed ==
    /\ Running
    /\ pc["strategy"] = "get_ref"
    /\ CanLock(rpLock)
    /\ ~rpLock.poisoned
    /\ rpLock' = Release(Acquire(rpLock, "strategy"))
    /\ pc' = [pc EXCEPT !["strategy"] = IF pc["feed"] = "done" THEN "tick" ELSE "get_position"]
    /\ UNCHANGED <<storeData, storeLock, rp, feedPending, rpApplied, batch, tornRead,
                   mdPending, startVars>>

strategy_get_ref ==
    /\ Running
    /\ pc["strategy"] = "get_ref"
    /\ RefGet("strategy", "get_position", "panicked")
    /\ UNCHANGED <<storeData, storeLock, rp, feedPending, rpApplied, batch, tornRead,
                   mdPending, startVars>>

\* the Decimals of the run: Decimals::new(&mkt, &asset)
StoreDecimals == Decimals_new(market, assets[market.settlement_asset])

\* the statement of volume_and_average_entry_price: the guard is alive during
\* the call, so the panic of parse().unwrap() poisons the lock
PanicsHoldingGuard(t) ==
    /\ CanLock(storeLock)
    /\ storeLock' = ReleasePanicking(Acquire(storeLock, t))
    /\ pc' = [pc EXCEPT ![t] = "panicked"]
    /\ UNCHANGED tornRead

strategy_get_position_keeps_guard ==
    /\ Running
    /\ pc["strategy"] = "get_position"
    /\ CanLock(storeLock)
    /\ ~storeLock.poisoned
    /\ storeLock' = Acquire(storeLock, "strategy")
    /\ pc' = [pc EXCEPT !["strategy"] = "get_balance"]
    /\ UNCHANGED <<storeData, feedVars, batch, tornRead, mdPending, startVars>>

strategy_get_position ==
    /\ Running
    /\ pc["strategy"] = "get_position"
    /\ IF ~storeLock.poisoned
          /\ volume_and_average_entry_price(StoreDecimals, get_position) = None
       THEN PanicsHoldingGuard("strategy")
       ELSE StoreGet("strategy", "positions", "get_balance", "panicked")
    /\ UNCHANGED <<storeData, feedVars, batch, mdPending, startVars>>

\* get_pubkey_balance: get_accounts under the lock
strategy_get_balance ==
    /\ Running
    /\ pc["strategy"] = "get_balance"
    /\ IF ~storeLock.poisoned
          /\ get_pubkey_balance(accounts, "pubkey", market.settlement_asset, StoreDecimals) = None
       THEN PanicsHoldingGuard("strategy")
       ELSE StoreGet("strategy", "accounts", "send", "panicked")
    /\ UNCHANGED <<storeData, feedVars, batch, mdPending, startVars>>

strategy_send_failure_exits(ok) ==
    /\ Running
    /\ pc["strategy"] = "send"
    /\ pc' = IF ok THEN [pc EXCEPT !["strategy"] = "tick"]
             ELSE [pc EXCEPT !["strategy"] = "panicked", !["main"] = "exit"]
    /\ UNCHANGED <<storeData, storeLock, feedVars, batch, tornRead, mdPending, startVars>>

strategy_send_clearing_orders(ok) ==
    /\ Running
    /\ pc["strategy"] = "send"
    /\ pc' = [pc EXCEPT !["strategy"] = IF ok THEN "tick" ELSE "panicked"]
    /\ orders' = EmptyMap
    /\ UNCHANGED <<constStore, market_data, accounts, position, storeLock, feedVars, batch,
                   tornRead, mdPending, startVars>>

\* clt.send(batch).await.unwrap()
strategy_send(ok) ==
    /\ Running
    /\ pc["strategy"] = "send"
    /\ pc' = [pc EXCEPT !["strategy"] = IF ok THEN "tick" ELSE "panicked"]
    /\ UNCHANGED <<storeData, storeLock, feedVars, batch, tornRead, mdPending, startVars>>

-----------------------------------------------------------------------------
(* api::handle: one request; a panic ends the request, the server goes on *)

ApiFields == <<"position", "accounts", "orders", "market", "market_data", "assets">>

WriterOf(f) ==
    IF f = "position" THEN "positions"
    ELSE IF f \in {"accounts", "orders"} THEN f
    ELSE NoTask

api_request ==
    /\ Running
    /\ pc["api"] = "idle"
    /\ pc' = [pc EXCEPT !["api"] = "ref"]
    /\ UNCHANGED <<storeData, storeLock, feedVars, batch, tornRead, mdPending, startVars>>

api_get_ref ==
    /\ Running
    /\ pc["api"] = "ref"
    /\ RefGet("api", ApiFields[1], "idle")
    /\ UNCHANGED <<storeData, storeLock, rp, feedPending, rpApplied, batch, tornRead,
                   mdPending, startVars>>

api_get(i) ==
    /\ Running
    /\ pc["api"] = ApiFields[i]
    /\ StoreGet("api", WriterOf(ApiFields[i]),
                IF i = Len(ApiFields) THEN "idle" ELSE ApiFields[i + 1], "idle")
    /\ UNCHANGED <<storeData, feedVars, batch, mdPending, startVars>>

-----------------------------------------------------------------------------
(* The store critical sections of the three batch reconcilers, one step per *)
(* entry: the guard of store.lock().unwrap().save_x(list) lives from the    *)
(* lock() to the end of the match arm.                                      *)

BatchReconcilers == {"orders", "accounts", "positions"}

guard_dropped_after_entry(m) == Release(m)

\* the guard between two iterations of the loop of save_x
guard_during_save(m) == m

lock_for_save(t, item) ==
    /\ Running
    /\ pc[t] = "next"
    /\ CarriesList(item)
    /\ CanLock(storeLock)
    /\ IF storeLock.poisoned
       THEN /\ pc' = [pc EXCEPT ![t] = "panicked"]
            /\ UNCHANGED <<storeLock, batch>>
       ELSE /\ storeLock' = Acquire(storeLock, t)
            /\ batch' = [owner |-> t, rest |-> item.list, applied |-> 0]
            /\ pc' = [pc EXCEPT ![t] = "saving"]
    /\ UNCHANGED <<storeData, feedVars, tornRead, mdPending, startVars>>

save_entry(t) ==
    /\ Running
    /\ pc[t] = "saving"
    /\ batch.owner = t
    /\ batch.rest # <<>>
    /\ LET e == Head(batch.rest)
           r == save_orders_entry([map |-> orders, panicked |-> FALSE], e)
           panics == t = "orders" /\ r.panicked
       IN  /\ orders' = IF t = "orders" THEN r.map ELSE orders
           /\ accounts' = IF t = "accounts" THEN save_accounts_entry(accounts, e) ELSE accounts
           /\ position' = IF t = "positions" THEN Some(e) ELSE position
           /\ storeLock' = IF panics THEN ReleasePanicking(storeLock)
                           ELSE guard_during_save(storeLock)
           /\ pc' = IF panics THEN [pc EXCEPT ![t] = "panicked"] ELSE pc
           /\ batch' = IF panics THEN batch
                       ELSE [batch EXCEPT !.rest = Tail(@), !.applied = @ + 1]
    /\ UNCHANGED <<constStore, market_data, feedVars, tornRead, mdPending, startVars>>

save_done(t) ==
    /\ Running
    /\ pc[t] = "saving"
    /\ batch.owner = t
    /\ batch.rest = <<>>
    /\ storeLock' = Release(storeLock)
    /\ batch' = NoBatch
    /\ pc' = [pc EXCEPT ![t] = "next"]
    /\ UNCHANGED <<storeData, feedVars, tornRead, mdPending, startVars>>

ListsOf(t) ==
    IF t = "orders" THEN SeqsUpTo({Order("A", 1, 1), Order("B", 99, 1)}, MaxBatch)
    ELSE IF t = "accounts"
         THEN SeqsUpTo({AccountBalance(1, <<"2", "a">>, <<>>, <<"5">>),
                        AccountBalance(4, <<"a">>, <<"m">>, <<"5">>)}, MaxBatch)
    ELSE SeqsUpTo(AllPositions, MaxBatch)

InitStoreLock ==
    /\ InitStarted
    /\ InitFeedSide
    /\ InitFine
    /\ InitNoOrders
    /\ InitNoAccounts
    /\ InitNoPosition
    /\ market_data = "md0"

NextStoreLock ==
    \/ \E t \in BatchReconcilers : \E l \in ListsOf(t) :
          lock_for_save(t, SnapshotItem(l)) /\ UNCHANGED hist
    \/ \E t \in BatchReconcilers : save_entry(t) /\ UNCHANGED hist
    \/ \E t \in BatchReconcilers : save_done(t) /\ UNCHANGED hist
    \/ update_market_data_item([res |-> "Ok", kind |-> "None", list |-> <<"md1">>])
          /\ UNCHANGED hist
    \/ update_market_data_save /\ UNCHANGED hist
    \/ strategy_tick /\ UNCHANGED hist
    \/ strategy_get_market /\ UNCHANGED hist
    \/ strategy_get_asset /\ UNCHANGED hist
    \/ strategy_get_ref /\ UNCHANGED hist
    \/ strategy_get_position /\ UNCHANGED hist
    \/ strategy_get_balance /\ UNCHANGED hist
    \/ \E ok \in BOOLEAN : strategy_send(ok) /\ UNCHANGED hist
    \/ api_request /\ UNCHANGED hist
    \/ api_get_ref /\ UNCHANGED hist
    \/ \E i \in 1..Len(ApiFields) : api_get(i) /\ UNCHANGED hist

SpecStoreLock == InitStoreLock /\ [][NextStoreLock]_vars

-----------------------------------------------------------------------------
(* binance_ws: the frames of the ticker stream.  A frame is the text of a   *)
(* websocket message: json or not, and the string fields it has.  Decimal   *)
(* strings are sequences of characters.                                     *)

Symbol == "BTCUSDT"

Frame(j, e, s, b, a) == [json |-> j, e |-> e, s |-> s, b |-> b, a |-> a]

\* {"e":"24hrTicker","s":sym,"b":bid,"a":ask}
TickerFrame(sym, b, a) == Frame(TRUE, Some("24hrTicker"), Some(sym), Some(b), Some(a))

\* {"result":null,"id":1}
AckFrame == Frame(TRUE, None, None, None, None)

GarbageFrame == Frame(FALSE, None, None, None, None)

OtherEventFrame == Frame(TRUE, Some("kline"), Some(Symbol), Some(<<"7">>), Some(<<"8">>))

MissingFieldFrame == Frame(TRUE, Some("24hrTicker"), Some(Symbol), Some(<<"7">>), None)

OtherSymbolFrame == TickerFrame("ETHUSDT", <<"5">>, <<"6">>)

GoodFrames == {TickerFrame(Symbol, <<"1">>, <<"2">>), TickerFrame(Symbol, <<"3">>, <<"4">>)}

BadDecimalFrames == {TickerFrame(Symbol, <<"x">>, <<"2">>), TickerFrame(Symbol, <<"1">>, <<"x">>)}

UndecodableFrames == {GarbageFrame, MissingFieldFrame, AckFrame}

Frames == GoodFrames \cup BadDecimalFrames \cup UndecodableFrames
              \cup {OtherEventFrame, OtherSymbolFrame}

\* socket.read_message(): a frame, or an error
ReadErr == [err |-> "WSError"]

ReadResults == {ReadErr} \cup Frames

\* serde_json::from_str::<Response>: e, a and b must be there; s is not looked at
Decode(f) ==
    IF f.json /\ f.e # None /\ f.a # None /\ f.b # None
    THEN Some([e |-> f.e[1], a |-> f.a[1], b |-> f.b[1]])
    ELSE None

\* RefPrice::set
RefPrice_set(r, bid, ask) == [bid_price |-> bid, ask_price |-> ask]

\* the Response of a read, when the loop gets to rp.lock() with it
TickerOf(res) ==
    IF res = ReadErr THEN None
    ELSE LET d == Decode(res)
         IN  IF d # None /\ d[1].e = "24hrTicker" THEN d ELSE None

-----------------------------------------------------------------------------
(* binance_ws::start *)

\* url parse, connect, the SUBSCRIBE request: each `?` returns the error
feed_connect(ok) ==
    /\ Running
    /\ pc["feed"] = "connect"
    /\ pc' = [pc EXCEPT !["feed"] = IF ok THEN "ack" ELSE "done"]
    /\ UNCHANGED <<storeData, storeLock, feedVars, batch, tornRead, mdPending, startVars>>

\* socket.read_message()?: the first message is dropped, whatever it is
feed_ack(res) ==
    /\ Running
    /\ pc["feed"] = "ack"
    /\ pc' = [pc EXCEPT !["feed"] = IF res = ReadErr THEN "done" ELSE "read"]
    /\ UNCHANGED <<storeData, storeLock, feedVars, batch, tornRead, mdPending, startVars>>

\* one iteration of the loop, rp.lock().unwrap().set(..) included; the two
\* parse().unwrap() are evaluated after lock(), with the guard alive
feed_message(res) ==
    /\ Running
    /\ pc["feed"] = "read"
    /\ IF res = ReadErr
       THEN /\ pc' = [pc EXCEPT !["feed"] = "done"]
            /\ UNCHANGED <<rp, rpLock, rpApplied>>
       ELSE IF TickerOf(res) = None
       THEN UNCHANGED <<pc, rp, rpLock, rpApplied>>
       ELSE /\ CanLock(rpLock)
            /\ LET r == TickerOf(res)[1]
                   bid == ParseF64(r.b)
                   ask == ParseF64(r.a)
               IN  IF rpLock.poisoned
                   THEN /\ pc' = [pc EXCEPT !["feed"] = "panicked"]
                        /\ UNCHANGED <<rp, rpLock, rpApplied>>
                   ELSE IF bid = None \/ ask = None
                   THEN /\ pc' = [pc EXCEPT !["feed"] = "panicked"]
                        /\ rpLock' = ReleasePanicking(Acquire(rpLock, "feed"))
                        /\ UNCHANGED <<rp, rpApplied>>
                   ELSE /\ rp' = RefPrice_set(rp, bid[1], ask[1])
                        /\ rpApplied' = <<bid[1], ask[1]>>
                        /\ rpLock' = Release(Acquire(rpLock, "feed"))
                        /\ UNCHANGED pc
    /\ UNCHANGED <<storeData, storeLock, feedPending, batch, tornRead, mdPending, startVars>>

\* history of the feed: the last result read, whether it was the first message of
\* the stream, and the pair before it was handled
HistFrame(res, first) ==
    lastFrame' = [frame |-> Some(res), first |-> first, before |-> RefPrice_get(rp)]

-----------------------------------------------------------------------------
(* SpecTicker: the feed task, one action per message, and the strategy *)

InitTicker ==
    /\ pc = [StreamingPc EXCEPT !["feed"] = "connect"]
    /\ InitBuilt
    /\ InitFeedSide
    /\ InitFine
    /\ InitNoOrders
    /\ InitNoAccounts
    /\ InitNoPosition
    /\ market_data = "md0"

NextTicker ==
    \/ \E ok \in BOOLEAN : feed_connect(ok) /\ UNCHANGED hist
    \/ \E res \in ReadResults :
          feed_ack(res) /\ HistFrame(res, TRUE)
             /\ UNCHANGED <<delivered, lastOrdersFrame, acctDelivered, posDelivered,
                            lastPositions, rpRead, runHist>>
    \/ \E res \in ReadResults :
          feed_message(res) /\ HistFrame(res, FALSE)
             /\ UNCHANGED <<delivered, lastOrdersFrame, acctDelivered, posDelivered,
                            lastPositions, rpRead, runHist>>
    \/ strategy_tick /\ UNCHANGED hist
    \/ strategy_get_market /\ UNCHANGED hist
    \/ strategy_get_asset /\ UNCHANGED hist
    \/ strategy_get_ref /\ UNCHANGED hist
    \/ strategy_get_position /\ UNCHANGED hist
    \/ strategy_get_balance /\ UNCHANGED hist
    \/ \E ok \in BOOLEAN : strategy_send(ok) /\ UNCHANGED hist

SpecTicker == InitTicker /\ [][NextTicker]_vars

-----------------------------------------------------------------------------
(* SpecFeed: rp.lock().unwrap().set(bid, ask) one field per step, against   *)
(* the readers of the pair.  The guard lives to the end of the statement.   *)

guard_dropped_between_fields(m) == Release(m)

\* the guard between the two assignments of RefPrice::set
guard_during_set(m) == m

\* the loop up to the call of set: read, decode, lock(), the two parse().unwrap()
feed_message_lock(res) ==
    /\ Running
    /\ pc["feed"] = "read"
    /\ IF res = ReadErr
       THEN /\ pc' = [pc EXCEPT !["feed"] = "done"]
            /\ UNCHANGED <<rpLock, feedPending>>
       ELSE IF TickerOf(res) = None
       THEN UNCHANGED <<pc, rpLock, feedPending>>
       ELSE /\ CanLock(rpLock)
            /\ LET r == TickerOf(res)[1]
                   bid == ParseF64(r.b)
                   ask == ParseF64(r.a)
               IN  IF rpLock.poisoned
                   THEN /\ pc' = [pc EXCEPT !["feed"] = "panicked"]
                        /\ UNCHANGED <<rpLock, feedPending>>
                   ELSE IF bid = None \/ ask = None
                   THEN /\ pc' = [pc EXCEPT !["feed"] = "panicked"]
                        /\ rpLock' = ReleasePanicking(Acquire(rpLock, "feed"))
                        /\ UNCHANGED feedPending
                   ELSE /\ feedPending' = <<bid[1], ask[1]>>
                        /\ rpLock' = Acquire(rpLock, "feed")
                        /\ pc' = [pc EXCEPT !["feed"] = "set_bid"]
    /\ UNCHANGED <<storeData, storeLock, rp, rpApplied, batch, tornRead, mdPending, startVars>>

\* self.bid_price = bid_price
feed_set_bid ==
    /\ Running
    /\ pc["feed"] = "set_bid"
    /\ rp' = [rp EXCEPT !.bid_price = feedPending[1]]
    /\ rpLock' = guard_during_set(rpLock)
    /\ pc' = [pc EXCEPT !["feed"] = "set_ask"]
    /\ UNCHANGED <<storeData, storeLock, feedPending, rpApplied, batch, tornRead,
                   mdPending, startVars>>

\* self.ask_price = ask_price, and the end of the statement
feed_set_ask ==
    /\ Running
    /\ pc["feed"] = "set_ask"
    /\ rp' = [rp EXCEPT !.ask_price = feedPending[2]]
    /\ rpApplied' = feedPending
    /\ rpLock' = Release(rpLock)
    /\ pc' = [pc EXCEPT !["feed"] = "read"]
    /\ UNCHANGED <<storeData, storeLock, feedPending, batch, tornRead, mdPending, startVars>>

\* the history variables but rpRead
histButRead == <<delivered, lastOrdersFrame, acctDelivered, posDelivered, lastPositions,
                 lastFrame, runHist>>

InitFeed ==
    /\ InitStarted
    /\ InitFeedSide
    /\ InitFine
    /\ InitNoOrders
    /\ InitNoAccounts
    /\ InitNoPosition
    /\ market_data = "md0"

NextFeed ==
    \/ \E res \in ReadResults : feed_message_lock(res) /\ UNCHANGED hist
    \/ feed_set_bid /\ UNCHANGED hist
    \/ feed_set_ask /\ UNCHANGED hist
    \/ strategy_tick /\ UNCHANGED hist
    \/ strategy_get_market /\ UNCHANGED hist
    \/ strategy_get_asset /\ UNCHANGED hist
    \/ strategy_get_ref /\ HistRefGet /\ UNCHANGED histButRead
    \/ strategy_get_position /\ UNCHANGED hist
    \/ strategy_get_balance /\ UNCHANGED hist
    \/ \E ok \in BOOLEAN : strategy_send(ok) /\ UNCHANGED hist
    \/ api_request /\ UNCHANGED hist
    \/ api_get_ref /\ HistRefGet /\ UNCHANGED histButRead
    \/ \E i \in 1..Len(ApiFields) : api_get(i) /\ UNCHANGED hist

SpecFeed == InitFeed /\ [][NextFeed]_vars

-----------------------------------------------------------------------------
(* SpecStrategy: run_strategy one lock() at a time, against the positions   *)
(* and accounts reconcilers and the ticker loop.  The history keeps what    *)
(* the run read and the batch it handed to clt.send.                        *)

LongPosition == Position(20, <<"5", "0", "0">>)

ShortPosition == Position(-10, <<"4", "0">>)

\* volume 20 at entry price 50: a notional above half of the balance
BigLongPosition == Position(200, <<"5", "0", "0">>)

\* the positions stream of SpecStrategy: the long position, then the short
\* one, then the large one, each frame at any moment of the runs
StrategyPositionItems ==
    IF position = None THEN {SnapshotItem(<<LongPosition>>)}
    ELSE IF position = Some(LongPosition) THEN {UpdatesItem(<<ShortPosition>>)}
    ELSE IF position = Some(ShortPosition) THEN {UpdatesItem(<<BigLongPosition>>)}
    ELSE {}

GeneralAccount(b) == AccountBalance(4, <<"a">>, <<>>, b)

MarginAccount == AccountBalance(12, <<"a">>, <<"m">>, <<"4", "0", "0", "0">>)

OtherAssetAccount == AccountBalance(4, <<"b">>, <<>>, <<"7">>)

OtherOwnerAccount == [AccountBalance(4, <<"a">>, <<"x">>, <<"9">>) EXCEPT !.owner = "other"]

StrategyAccounts ==
    <<GeneralAccount(<<"6", "0", "0", "0">>), MarginAccount, OtherAssetAccount,
      OtherOwnerAccount>>

StrategyAccountItems == {UpdatesItem(<<GeneralAccount(<<"8", "0", "0", "0">>)>>)}

StrategyFrames ==
    {TickerFrame(Symbol, <<"1">>, <<"2">>), TickerFrame(Symbol, <<"1", "0", "0">>, <<"1", "0", "0">>)}

\* the history variables SpecStrategy leaves alone
notRunHist == <<delivered, lastOrdersFrame, acctDelivered, posDelivered, lastPositions,
                rpRead, lastFrame, streamFault>>

\* a run starts
HistTick ==
    /\ run' = [NoRun EXCEPT !.active = run.active + 1]
    /\ UNCHANGED <<sent, coexisted, notRunHist>>

\* let (best_bid, best_ask) = rp.lock().unwrap().get(), and where the feed
\* task was then
HistGetRef ==
    /\ run' = IF rpLock.poisoned THEN run
              ELSE [run EXCEPT !.ref = RefPrice_get(rp), !.feed = pc["feed"]]
    /\ UNCHANGED <<sent, coexisted, notRunHist>>

\* what strategy_get_position handed to volume_and_average_entry_price
HistGetPosition ==
    /\ run' = IF pc'["strategy"] = "get_balance" THEN [run EXCEPT !.position = get_position]
              ELSE run
    /\ UNCHANGED <<sent, coexisted, notRunHist>>

\* what strategy_get_balance folded
HistGetBalance ==
    /\ run' = IF pc'["strategy"] = "send" THEN [run EXCEPT !.accounts = accounts] ELSE run
    /\ UNCHANGED <<sent, coexisted, notRunHist>>

\* the batch of the run, built from what the run read, with the run's reads and
\* whether the store ever held the position and the accounts together
HistSend ==
    /\ sent' = Some([ref |-> run.ref, feed |-> run.feed, position |-> run.position, accounts |-> run.accounts,
                     out |-> run_strategy_batch(market, assets[market.settlement_asset],
                                                run.ref, run.position, run.accounts),
                     coexisted |-> <<run.position, run.accounts>> \in coexisted])
    /\ run' = [NoRun EXCEPT !.active = run.active - 1]
    /\ UNCHANGED <<coexisted, notRunHist>>

\* a reconciler wrote the store
HistStore ==
    /\ coexisted' = coexisted \cup {<<position', accounts'>>}
    /\ UNCHANGED <<run, sent, notRunHist>>

InitStrategy ==
    /\ InitStarted
    /\ InitFeedSide
    /\ InitNoOrders
    /\ position = None
    /\ posDelivered = None
    /\ lastPositions = None
    /\ accounts = new_accounts(StrategyAccounts)
    /\ acctDelivered = NoAccounts
    /\ market_data = "md0"
    /\ batch = NoBatch
    /\ tornRead = FALSE
    /\ mdPending = <<>>
    /\ run = NoRun
    /\ sent = None
    /\ streamFault = FALSE
    /\ coexisted = {<<position, accounts>>}

NextStrategy ==
    \/ strategy_tick /\ HistTick
    \/ strategy_get_market /\ UNCHANGED hist
    \/ strategy_get_asset /\ UNCHANGED hist
    \/ strategy_get_ref /\ HistGetRef
    \/ strategy_get_position /\ HistGetPosition
    \/ strategy_get_balance /\ HistGetBalance
    \/ \E ok \in BOOLEAN : strategy_send(ok) /\ HistSend
    \/ \E item \in StrategyPositionItems : update_position_item(item) /\ HistStore
    \/ \E item \in StrategyAccountItems : update_accounts_item(item) /\ HistStore
    \/ \E res \in StrategyFrames : feed_message(res) /\ UNCHANGED hist

SpecStrategy == InitStrategy /\ [][NextStrategy]_vars

-----------------------------------------------------------------------------
(* SpecFeedEnd: binance_ws::start from its first line, with the errors that *)
(* return from it, against the runs of the strategy and their batches.      *)

FeedEndResults == StrategyFrames \cup {ReadErr}

InitFeedEnd ==
    /\ pc = [StreamingPc EXCEPT !["feed"] = "connect"]
    /\ InitBuilt
    /\ InitFeedSide
    /\ InitNoOrders
    /\ InitNoPosition
    /\ accounts = new_accounts(StrategyAccounts)
    /\ acctDelivered = NoAccounts
    /\ market_data = "md0"
    /\ batch = NoBatch
    /\ tornRead = FALSE
    /\ mdPending = <<>>
    /\ run = NoRun
    /\ sent = None
    /\ streamFault = FALSE
    /\ coexisted = {<<position, accounts>>}

NextFeedEnd ==
    \/ \E ok \in BOOLEAN : feed_connect(ok) /\ UNCHANGED hist
    \/ \E res \in FeedEndResults : feed_ack(res) /\ UNCHANGED hist
    \/ \E res \in FeedEndResults : feed_message(res) /\ UNCHANGED hist
    \/ strategy_tick /\ HistTick
    \/ strategy_get_market /\ UNCHANGED hist
    \/ strategy_get_asset /\ UNCHANGED hist
    \/ strategy_get_ref /\ HistGetRef
    \/ strategy_get_position /\ HistGetPosition
    \/ strategy_get_balance /\ HistGetBalance
    \/ \E ok \in BOOLEAN : strategy_send(ok) /\ HistSend

SpecFeedEnd == InitFeedEnd /\ [][NextFeedEnd]_vars

-----------------------------------------------------------------------------
(* main and VegaStore::new.  A `?` on an Err returns from main: the process *)
(* exits, and so it does when main panics.                                  *)

TryIgnoringErr(ok, next) == next

\* expr.await? : go on with the value, or return the error
Try(ok, next) == IF ok THEN next ELSE "exit"

FetchErr == [res |-> "Err", payload |-> None]

FetchOk(p) == [res |-> "Ok", payload |-> Some(p)]

\* the tasks main spawns once the store is built: update_forever, api::start,
\* strategy::start
SpawnTasks(p) ==
    [t \in Tasks |->
        IF t \in Reconcilers THEN "subscribe"
        ELSE IF t = "api" THEN "idle"
        ELSE IF t = "strategy" THEN "tick"
        ELSE p[t]]

\* WalletClient::new(..).await?, then tokio::spawn(binance_ws::start(..))
main_wallet(ok) ==
    /\ pc["main"] = "wallet"
    /\ pc' = IF Try(ok, "grpc") = "exit" THEN [pc EXCEPT !["main"] = "exit"]
             ELSE [pc EXCEPT !["main"] = "grpc", !["feed"] = "connect"]
    /\ UNCHANGED <<storeData, storeLock, feedVars, batch, tornRead, mdPending, startVars>>

\* TradingDataServiceClient::connect(addr).await?
main_grpc(ok) ==
    /\ pc["main"] = "grpc"
    /\ pc' = [pc EXCEPT !["main"] = Try(ok, "new")]
    /\ UNCHANGED <<storeData, storeLock, feedVars, batch, tornRead, mdPending, startVars>>

\* what every fetch of VegaStore::new does with its result r; `panics` says that
\* the code between this fetch and the next panics on the payload.  After the
\* sixth fetch new returns the store, and main spawns the tasks and loops.
new_step(n, r, panics) ==
    /\ pc["main"] = "new"
    /\ newStep = n
    /\ fetchFailed' = (fetchFailed \/ r.res = "Err")
    /\ LET to == IF r.res = "Ok" /\ panics THEN "exit"
                 ELSE Try(r.res = "Ok", IF n = 6 THEN "loop" ELSE "new")
       IN  /\ newStep' = IF to = "exit" THEN newStep ELSE newStep + 1
           /\ storeBuilt' = (to = "loop")
           /\ pc' = IF to = "loop" THEN SpawnTasks([pc EXCEPT !["main"] = "loop"])
                    ELSE [pc EXCEPT !["main"] = to]

\* the value a fetch leaves in the store field: the old one on Err or on a panic
Fetched(r, panics, old, new) == IF r.res = "Ok" /\ ~panics THEN new ELSE old

\* clt.get_market(..).await?, and market.as_ref().unwrap()
new_get_market(r) ==
    /\ new_step(1, r, r.payload = None)
    /\ market' = Fetched(r, r.payload = None, market, r.payload[1])
    /\ UNCHANGED <<market_data, accounts, orders, position, assets, storeLock, feedVars,
                   batch, tornRead, mdPending>>

\* clt.get_latest_market_data(..).await?, and market_data.as_ref().unwrap()
new_get_latest_market_data(r) ==
    /\ new_step(2, r, r.payload = None)
    /\ market_data' = Fetched(r, r.payload = None, market_data, r.payload[1])
    /\ UNCHANGED <<market, accounts, orders, position, assets, storeLock, feedVars,
                   batch, tornRead, mdPending>>

\* clt.list_positions(..).await?, and the match on the edges; resp is the
\* Option of the edges
new_list_positions(res, resp) ==
    /\ new_step(3, [res |-> res, payload |-> resp], new_position_panics(resp))
    /\ position' = Fetched([res |-> res], new_position_panics(resp), position, new_position(resp))
    /\ UNCHANGED <<market, market_data, accounts, orders, assets, storeLock, feedVars,
                   batch, tornRead, mdPending>>

\* clt.list_orders(..).await?, and the loop over the edges
new_list_orders(r) ==
    /\ new_step(4, r, r.payload = None)
    /\ orders' = Fetched(r, r.payload = None, orders, new_orders(r.payload[1]))
    /\ UNCHANGED <<market, market_data, accounts, position, assets, storeLock, feedVars,
                   batch, tornRead, mdPending>>

\* clt.list_accounts(..).await?, and the loop over the edges
new_list_accounts(r) ==
    /\ new_step(5, r, r.payload = None)
    /\ accounts' = Fetched(r, r.payload = None, accounts, new_accounts(r.payload[1]))
    /\ UNCHANGED <<market, market_data, orders, position, assets, storeLock, feedVars,
                   batch, tornRead, mdPending>>

\* clt.list_assets(..).await?, the loop over the edges, and Ok(VegaStore {..})
new_list_assets(r) ==
    /\ new_step(6, r, r.payload = None)
    /\ assets' = Fetched(r, r.payload = None, assets, new_assets(r.payload[1]))
    /\ UNCHANGED <<market, market_data, accounts, orders, position, storeLock, feedVars,
                   batch, tornRead, mdPending>>

\* the loop of main: interval.tick(), interval.reset()
main_tick ==
    /\ pc["main"] = "loop"
    /\ UNCHANGED <<pc, storeData, storeLock, feedVars, batch, tornRead, mdPending, startVars>>

-----------------------------------------------------------------------------
(* The reconcilers' streams *)

subscribe_failure_exits(t, ok) ==
    /\ Running
    /\ pc[t] = "subscribe"
    /\ pc' = IF ok THEN [pc EXCEPT ![t] = "next"]
             ELSE [pc EXCEPT ![t] = "panicked", !["main"] = "exit"]
    /\ UNCHANGED <<storeData, storeLock, feedVars, batch, tornRead, mdPending, startVars>>

\* clt.observe_x(..).await: Err(e) => panic!
subscribe(t, ok) ==
    /\ Running
    /\ pc[t] = "subscribe"
    /\ pc' = [pc EXCEPT ![t] = IF ok THEN "next" ELSE "panicked"]
    /\ UNCHANGED <<storeData, storeLock, feedVars, batch, tornRead, mdPending, startVars>>

\* stream.next().await is None: the while loop ends, and the task with it
stream_end(t) ==
    /\ Running
    /\ pc[t] = "next"
    /\ pc' = [pc EXCEPT ![t] = "done"]
    /\ UNCHANGED <<storeData, storeLock, feedVars, batch, tornRead, mdPending, startVars>>

-----------------------------------------------------------------------------
(* run_strategy and api::handle as one step each: neither awaits between    *)
(* its lock() calls.  SpecStoreLock, SpecFeed and SpecStrategy take them    *)
(* one lock() at a time, against the tasks that run on the other threads.   *)

\* run_strategy up to clt.send(batch): get_market, get_asset, RefPrice::get,
\* get_position, get_accounts
strategy_run ==
    /\ Running
    /\ pc["strategy"] = "tick"
    /\ CanLock(storeLock)
    /\ CanLock(rpLock)
    /\ IF storeLock.poisoned
       THEN /\ pc' = [pc EXCEPT !["strategy"] = "panicked"]
            /\ UNCHANGED <<storeLock, rpLock>>
       ELSE IF market.settlement_asset \notin DOMAIN assets
       THEN /\ pc' = [pc EXCEPT !["strategy"] = "panicked"]
            /\ storeLock' = ReleasePanicking(Acquire(storeLock, "strategy"))
            /\ UNCHANGED rpLock
       ELSE IF rpLock.poisoned
       THEN /\ pc' = [pc EXCEPT !["strategy"] = "panicked"]
            /\ storeLock' = Release(Acquire(storeLock, "strategy"))
            /\ UNCHANGED rpLock
       ELSE IF \/ volume_and_average_entry_price(StoreDecimals, get_position) = None
               \/ get_pubkey_balance(accounts, "pubkey", market.settlement_asset,
                                     StoreDecimals) = None
       THEN /\ pc' = [pc EXCEPT !["strategy"] = "panicked"]
            /\ storeLock' = ReleasePanicking(Acquire(storeLock, "strategy"))
            /\ rpLock' = Release(Acquire(rpLock, "strategy"))
       ELSE /\ pc' = [pc EXCEPT !["strategy"] = "send"]
            /\ storeLock' = Release(Acquire(storeLock, "strategy"))
            /\ rpLock' = Release(Acquire(rpLock, "strategy"))
    /\ UNCHANGED <<storeData, rp, feedPending, rpApplied, batch, tornRead, mdPending,
                   startVars>>

\* one request: RefPrice::get, then the six getters; a panic on a poisoned lock
\* ends the request and the server goes on
api_handle ==
    /\ Running
    /\ pc["api"] = "idle"
    /\ CanLock(rpLock)
    /\ CanLock(storeLock)
    /\ rpLock' = IF rpLock.poisoned THEN rpLock ELSE Release(Acquire(rpLock, "api"))
    /\ storeLock' = IF rpLock.poisoned \/ storeLock.poisoned THEN storeLock
                    ELSE Release(Acquire(storeLock, "api"))
    /\ UNCHANGED <<pc, storeData, rp, feedPending, rpApplied, batch, tornRead, mdPending,
                   startVars>>

-----------------------------------------------------------------------------
(* Spec: the whole process, from main's first line *)

\* history of a reconciler's open stream: it delivered an error, or it ended
HistStream(fault) == streamFault' = (streamFault \/ fault)

histButFault == <<delivered, lastOrdersFrame, acctDelivered, posDelivered, lastPositions,
                  rpRead, lastFrame, run, sent, coexisted>>

Init ==
    /\ pc = [t \in Tasks |-> IF t = "main" THEN "wallet" ELSE "init"]
    /\ market = None
    /\ market_data = "none"
    /\ assets = EmptyMap
    /\ storeBuilt = FALSE
    /\ storeLock = NewMutex
    /\ newStep = 1
    /\ fetchFailed = FALSE
    /\ InitFeedSide
    /\ InitFine
    /\ InitNoOrders
    /\ InitNoAccounts
    /\ InitNoPosition

\* what the server sends in this specification
StartPositions ==
    {None, Some(<<>>), Some(<<Some(Position(-1, <<"4">>))>>),
     Some(<<Some(Position(-1, <<"4">>)), Some(Position(2, <<"5", "0">>))>>)}

StartOrders == {None, Some(<<>>), Some(<<Order("A", 1, 1)>>)}

TheAccount == AccountBalance(4, <<"a">>, <<"m">>, <<"5">>)

OrdersItems == {ErrItem, EmptyItem, SnapshotItem(<<Order("A", 1, 1)>>),
                UpdatesItem(<<Order("A", 5, 1), Order("B", 99, 1)>>)}

AccountsItems == {ErrItem, UpdatesItem(<<TheAccount>>)}

PositionsItems == {ErrItem, EmptyItem, SnapshotItem(<<Position(-1, <<"4">>)>>)}

TickerResults == {ReadErr, AckFrame, TickerFrame(Symbol, <<"1">>, <<"2">>),
                  TickerFrame(Symbol, <<"1">>, <<"x">>)}

Next ==
    \/ \E ok \in BOOLEAN : main_wallet(ok) /\ UNCHANGED hist
    \/ \E ok \in BOOLEAN : main_grpc(ok) /\ UNCHANGED hist
    \/ \E r \in {FetchErr, [res |-> "Ok", payload |-> None], FetchOk(TheMarket)} :
          new_get_market(r) /\ UNCHANGED hist
    \/ \E r \in {FetchErr, [res |-> "Ok", payload |-> None], FetchOk("md0")} :
          new_get_latest_market_data(r) /\ UNCHANGED hist
    \/ \E resp \in StartPositions : new_list_positions("Ok", resp) /\ UNCHANGED hist
    \/ new_list_positions("Err", None) /\ UNCHANGED hist
    \/ \E r \in {FetchErr} \cup {[res |-> "Ok", payload |-> o] : o \in StartOrders} :
          new_list_orders(r) /\ UNCHANGED hist
    \/ \E r \in {FetchErr, [res |-> "Ok", payload |-> None], FetchOk(<<TheAccount>>)} :
          new_list_accounts(r) /\ UNCHANGED hist
    \/ \E r \in {FetchErr, [res |-> "Ok", payload |-> None], FetchOk(<<Asset(<<"a">>, 1)>>)} :
          new_list_assets(r) /\ UNCHANGED hist
    \/ main_tick /\ UNCHANGED hist
    \/ \E t \in Reconcilers : \E ok \in BOOLEAN : subscribe(t, ok) /\ UNCHANGED hist
    \/ \E t \in Reconcilers : stream_end(t) /\ HistStream(TRUE) /\ UNCHANGED histButFault
    \/ \E item \in OrdersItems :
          update_orders_item(item) /\ HistStream(item = ErrItem) /\ UNCHANGED histButFault
    \/ \E item \in AccountsItems :
          update_accounts_item(item) /\ HistStream(item = ErrItem) /\ UNCHANGED histButFault
    \/ \E item \in PositionsItems :
          update_position_item(item) /\ HistStream(item = ErrItem) /\ UNCHANGED histButFault
    \/ \E item \in {ErrItem, [res |-> "Ok", kind |-> "None", list |-> <<"md1">>]} :
          update_market_data_item(item) /\ HistStream(item = ErrItem)
             /\ UNCHANGED histButFault
    \/ update_market_data_save /\ UNCHANGED hist
    \/ \E ok \in BOOLEAN : feed_connect(ok) /\ UNCHANGED hist
    \/ \E res \in TickerResults : feed_ack(res) /\ UNCHANGED hist
    \/ \E res \in TickerResults : feed_message(res) /\ UNCHANGED hist
    \/ strategy_run /\ UNCHANGED hist
    \/ \E ok \in BOOLEAN : strategy_send(ok) /\ UNCHANGED hist
    \/ api_handle /\ UNCHANGED hist

Spec == Init /\ [][Next]_vars

-----------------------------------------------------------------------------
(* Claims about the store's merge rules *)

\* C1 (SpecOrders): while the store is usable (its lock is not poisoned), the
\* cache holds an order id exactly when the last order delivered with that id
\* was active, and then it holds that order; so every cached order is active.
C1_CacheHoldsLatestActive ==
    ~storeLock.poisoned =>
        \A id \in OrderIds :
            /\ (id \in DOMAIN orders) <=> (delivered[id] # None /\ delivered[id][1].status = 1)
            /\ (id \in DOMAIN orders) => (Some(orders[id]) = delivered[id])

\* C1 witness: an update {B: filled} was just merged and the cache is exactly {A}
C1_Witness ==
    /\ ~storeLock.poisoned
    /\ lastOrdersFrame = [tag |-> "Updates", ids |-> {"B"}]
    /\ delivered["B"] = Some(Order("B", 5, 1))
    /\ delivered["A"] # None
    /\ DOMAIN orders = {"A"}

\* C2 (SpecOrders): in every store state and for every order list, handling
\* the list as a snapshot gives the same cache (and the same panic) as handling
\* it as an update, and every cached order whose id is not in the list stays.
C2_SnapshotMergesLikeUpdate ==
    \A list \in SeqsUpTo(AllOrders, MaxBatch) :
        LET s == orders_frame(orders, SnapshotItem(list))
            u == orders_frame(orders, UpdatesItem(list))
        IN  /\ s = u
            /\ \A id \in (DOMAIN orders) \ IdsOf(list) :
                  id \in DOMAIN s.map /\ s.map[id] = orders[id]

\* C2 witness: a snapshot was just merged and an order it does not list is cached
C2_Witness ==
    /\ lastOrdersFrame.tag = "Snapshot"
    /\ lastOrdersFrame.ids = {"B"}
    /\ "A" \in DOMAIN orders

\* C3 (SpecAccounts), as claimed: there is at most one bucket per (type,
\* asset, market); a cached bucket is only ever overwritten by a balance with
\* the same triple; and every triple an update delivers has, after the update,
\* its own bucket holding the last balance delivered for it.
C3_OneBucketPerTriple ==
    /\ [](\A k1, k2 \in DOMAIN accounts :
            TripleOf(accounts[k1]) = TripleOf(accounts[k2]) => k1 = k2)
    /\ [][/\ \A k \in DOMAIN accounts :
                k \in DOMAIN accounts' /\ TripleOf(accounts'[k]) = TripleOf(accounts[k])
          /\ \A t \in AcctTriples :
                acctDelivered'[t] # acctDelivered[t] =>
                    /\ account_key(t[1], t[2], t[3]) \in DOMAIN accounts'
                    /\ Some(accounts'[account_key(t[1], t[2], t[3])]) = acctDelivered'[t]]_vars

\* C4 (SpecPositions): get_position is the last position the server delivered
\* (in the list_positions response or in a frame): the last entry of the last
\* non-empty list, unchanged by an empty list, absent if none was delivered.
C4_PositionIsLastDelivered ==
    /\ get_position = posDelivered
    /\ (lastPositions # None /\ lastPositions[1] # <<>>) =>
          get_position = Some(lastPositions[1][Len(lastPositions[1])])

\* C4 witness: a frame with two different positions was merged, the second is kept
C4_Witness ==
    /\ lastPositions # None
    /\ Len(lastPositions[1]) = 2
    /\ lastPositions[1][1] # lastPositions[1][2]
    /\ position = Some(lastPositions[1][2])

-----------------------------------------------------------------------------
(* Claims about locking *)

\* C5 (SpecStoreLock): no reader (the strategy or an API request) ever reads
\* the orders, the accounts or the position between two entries of a batch the
\* reconciler is applying: a read sees none of the batch or all of it.
C5_NoTornRead == ~tornRead

\* C5 witness: the accounts reconciler has applied one entry of two while the
\* API handler and the strategy both wait to read the accounts
C5_Witness ==
    /\ HalfApplied("accounts")
    /\ storeLock.holder = "accounts"
    /\ pc["api"] = "accounts"
    /\ pc["strategy"] = "get_balance"

\* where a task waits for the network or for a timer: the wallet and grpc
\* connections and the fetches of main, its loop timer, a reconciler's
\* subscription and its next stream item, the feed's connection and its next
\* message, the next HTTP request, the strategy's timer and its clt.send
SuspensionPoints ==
    {"wallet", "grpc", "new", "loop", "subscribe", "next", "connect", "ack", "read",
     "idle", "tick", "send"}

\* C6 (Spec): a task that waits at a suspension point holds neither the store
\* lock nor the reference-price lock.
C6_NoLockAcrossSuspension ==
    \A t \in Tasks :
        pc[t] \in SuspensionPoints => storeLock.holder # t /\ rpLock.holder # t

\* C6 witness: the strategy waits for clt.send after its reads, the feed and the
\* orders reconciler wait for their next message after a write, both locks free
C6_Witness ==
    /\ pc["strategy"] = "send"
    /\ pc["feed"] = "read"
    /\ rp = [bid_price |-> 1, ask_price |-> 2]
    /\ pc["orders"] = "next"
    /\ DOMAIN orders = {"A"}
    /\ storeLock = NewMutex
    /\ rpLock = NewMutex

-----------------------------------------------------------------------------
(* Claims about the reference price feed *)

\* the pair the RefPrice holds
Pair == RefPrice_get(rp)

\* the last message read was frame f
LastRead(f) == lastFrame.frame = Some(f)

\* the last message read was frame f, and the loop handled it
LastHandled(f) == LastRead(f) /\ ~lastFrame.first

\* C8 (SpecTicker), as claimed: a frame that is not a 24hrTicker update for the
\* subscribed symbol (the acknowledgment, another event, a ticker of another
\* symbol) leaves the pair as it was.
C8_OnlySubscribedTicker ==
    \A f \in {AckFrame, OtherEventFrame, OtherSymbolFrame} :
        LastRead(f) => Pair = lastFrame.before

\* C9 (SpecTicker), as claimed: after a malformed frame (undecodable, a field
\* missing, a bid or ask that is no decimal) the pair is as it was and the feed
\* task is still reading.
C9_MalformedSkipped ==
    \A f \in UndecodableFrames \cup BadDecimalFrames :
        LastRead(f) => Pair = lastFrame.before /\ pc["feed"] = "read"

\* C9 (SpecTicker), amended: an undecodable frame or one with a field missing
\* is skipped (pair unchanged, feed still reading, lock usable); a ticker frame
\* whose bid or ask is no decimal leaves the pair unchanged but ends the feed
\* task with a panic that poisons the reference-price lock (the first message
\* of the stream is dropped unread, whatever it is).
C9_MalformedSkippedOrFatal ==
    /\ \A f \in UndecodableFrames :
          LastRead(f) => Pair = lastFrame.before /\ pc["feed"] = "read" /\ ~rpLock.poisoned
    /\ \A f \in BadDecimalFrames :
          /\ LastRead(f) => Pair = lastFrame.before
          /\ LastHandled(f) => pc["feed"] = "panicked" /\ rpLock.poisoned

\* C9 witness: a ticker with an unparseable bid arrived after a pair was set,
\* and the strategy panicked on the poisoned lock
C9_Witness ==
    /\ LastHandled(TickerFrame(Symbol, <<"x">>, <<"2">>))
    /\ Pair = <<3, 4>>
    /\ pc["feed"] = "panicked"
    /\ pc["strategy"] = "panicked"

\* C7 (SpecFeed): whatever RefPrice::get returns to the strategy or to the
\* API handler is the pair of the last ticker frame applied, (0, 0) before the
\* first one: never the bid of one frame with the ask of another.  Whenever
\* the lock is free the RefPrice holds that pair.
C7_ReadsLatestPair ==
    /\ rpRead.got = rpRead.applied
    /\ rpLock.holder = NoTask => Pair = rpApplied
    /\ rpRead.got \in {<<0, 0>>, <<1, 2>>, <<3, 4>>, <<5, 6>>}

\* C7 witness: a reader waits for the pair while the feed has written the bid of
\* a new frame over the ask of the previous one
C7_Witness ==
    /\ pc["feed"] = "set_ask"
    /\ Pair = <<3, 2>>
    /\ rpRead.got = <<1, 2>>
    /\ pc["strategy"] = "get_ref"
    /\ pc["api"] = "ref"

-----------------------------------------------------------------------------
(* Claims about startup *)

\* the tasks that use the store
StoreTasks == Reconcilers \cup {"api", "strategy"}

\* C10 (Spec): once one of the six fetches of VegaStore::new has returned an
\* error, main has returned, no store was built, and no reconciler, no API
\* handler and no strategy is ever started; such a task runs only on a store
\* built from six successful fetches.
C10_FetchFailureAbortsStartup ==
    /\ fetchFailed =>
          /\ pc["main"] = "exit"
          /\ ~storeBuilt
          /\ \A t \in StoreTasks : pc[t] = "init"
    /\ (\E t \in StoreTasks : pc[t] # "init") =>
          storeBuilt /\ newStep = 7 /\ ~fetchFailed

\* C10 witness: list_accounts failed after the market, the market data, a
\* position and an order were fetched, while the feed task was already reading
C10_Witness ==
    /\ fetchFailed
    /\ newStep = 5
    /\ DOMAIN orders = {"A"}
    /\ position # None
    /\ pc["feed"] = "read"

-----------------------------------------------------------------------------
(* Claims about failures of the streams and of the submission *)

\* the state of the program: everything but the history variables
progVars == <<pc, storeData, storeLock, feedVars, batch, mdPending, newStep>>

\* C11 (Spec), as claimed: once an open reconciler stream has delivered an
\* error or has ended, no task takes a step that changes anything.
C11_StreamFaultStopsProcess == [][streamFault => UNCHANGED progVars]_vars

\* the collection reconciler t writes
Collection(t) ==
    IF t = "orders" THEN orders
    ELSE IF t = "accounts" THEN accounts
    ELSE IF t = "positions" THEN position
    ELSE market_data

\* what a step of task t leaves alone when it only moves t: the other tasks,
\* the store, the two locks and the reference price
OnlyMoves(t) ==
    /\ \A u \in Tasks \ {t} : pc'[u] = pc[u]
    /\ UNCHANGED <<storeData, storeLock, feedVars, batch, mdPending>>

\* C12 (Spec): a failed subscription stops its reconciler and nothing else (the
\* step moves no other task and touches neither the store nor the locks); the
\* stopped reconciler stays stopped; and a reconciler that is subscribing or
\* has stopped never changes its collection, which so keeps the value fetched
\* at startup.  A stopped orders reconciler does not keep the accounts
\* reconciler from applying its next frame nor the strategy from running.
C12_SubscribeFailureStopsOnlyReconciler ==
    /\ [][/\ \A t \in Reconcilers :
                /\ (pc[t] = "subscribe" /\ pc'[t] = "panicked") => OnlyMoves(t)
                /\ pc[t] = "panicked" => pc'[t] = "panicked"
                /\ pc[t] \in {"init", "subscribe", "panicked", "done"} /\ storeBuilt =>
                      Collection(t)' = Collection(t)]_vars
    /\ [](pc["orders"] = "panicked" /\ ~storeLock.poisoned =>
             /\ pc["accounts"] = "next" =>
                   ENABLED update_accounts_item(UpdatesItem(<<TheAccount>>))
             /\ pc["strategy"] = "tick" => ENABLED strategy_run)

\* C12 witness: the orders subscription failed (the store lock is not poisoned),
\* the orders cache is empty as fetched, while the position and the market data
\* were updated from their streams and the strategy finished a run's reads
C12_Witness ==
    /\ pc["orders"] = "panicked"
    /\ ~storeLock.poisoned
    /\ orders = EmptyMap
    /\ pc["positions"] = "next"
    /\ position # None
    /\ market_data = "md1"
    /\ pc["strategy"] = "send"

\* C13 (Spec): a failed submission stops the strategy task and nothing else;
\* the strategy task then stays stopped, so it starts no run and submits no
\* batch (a batch is submitted by the step that leaves "send"); the reconcilers
\* and the feed can still apply their next item.
C13_SendFailureStopsOnlyStrategy ==
    /\ [][/\ (pc["strategy"] = "send" /\ pc'["strategy"] = "panicked") => OnlyMoves("strategy")
          /\ pc["strategy"] = "panicked" => pc'["strategy"] = "panicked"]_vars
    /\ [](pc["strategy"] = "panicked" /\ ~storeLock.poisoned /\ ~rpLock.poisoned =>
             /\ pc["orders"] = "next" =>
                   ENABLED update_orders_item(SnapshotItem(<<Order("A", 1, 1)>>))
             /\ pc["feed"] = "read" =>
                   ENABLED feed_message(TickerFrame(Symbol, <<"1">>, <<"2">>)))

\* C13 witness: the strategy stopped on a failed submission (no lock is
\* poisoned), and the orders reconciler and the feed have written since startup
C13_Witness ==
    /\ pc["strategy"] = "panicked"
    /\ ~storeLock.poisoned
    /\ ~rpLock.poisoned
    /\ pc["orders"] = "next"
    /\ pc["feed"] = "read"
    /\ pc["main"] = "loop"

-----------------------------------------------------------------------------
(* Claims about what the operations change *)

\* C18 (Spec): once the store is built, the market and the assets never change;
\* a step that changes one of orders, accounts, position and market data is a
\* step of the reconciler of that collection and changes no other field; and a
\* step of the strategy changes no field of the store.
C18_SaveChangesOwnCollection ==
    [][storeBuilt =>
          /\ market' = market
          /\ assets' = assets
          /\ storeBuilt'
          /\ \A t \in Reconcilers :
                Collection(t)' # Collection(t) =>
                    /\ pc[t] \in {"next", "saving"}
                    /\ \A u \in Reconcilers \ {t} : Collection(u)' = Collection(u)
          /\ pc'["strategy"] # pc["strategy"] => UNCHANGED storeData]_vars

\* C18 witness: orders, position and market data were each changed by their
\* reconciler after the store was built with no order and no position, the
\* strategy has run, and the market and the assets are as fetched
C18_Witness ==
    /\ storeBuilt
    /\ DOMAIN orders = {"A"}
    /\ position # None
    /\ market_data = "md1"
    /\ pc["strategy"] = "send"
    /\ market = TheMarket
    /\ DOMAIN assets = {<<"a">>}

-----------------------------------------------------------------------------
(* Claims about the batch of a strategy run *)

\* the result of the run that built the last batch, and its submissions
Out == sent[1].out[1]

Submissions == Out.batch.submissions

\* the price factor of the market: 10 ^ decimal_places
PriceFactor == Pow10(market.decimal_places)

\* ref * (1 - 0.002 * L) and ref * (1 + 0.002 * L) at protocol scale, rounded down
LevelBid(ref, L) == (ref * (500 - L) * PriceFactor) \div 500

LevelOffer(ref, L) == (ref * (500 + L) * PriceFactor) \div 500

\* the submitted price of the bid and of the offer of level L
BidPrice(L) == ParseDigits(0, Submissions[L].price)

OfferPrice(L) == ParseDigits(0, Submissions[5 + L].price)

\* C14 (SpecStrategy): the batch of a run has one cancellation, of every order
\* of the market (empty order id), no amendment, and 10 submissions for the
\* market: buys at levels 1..5 then sells at levels 1..5, each a limit order,
\* good till cancelled, without expiry or peg, with the one reference string.
C14_BatchShape ==
    sent # None =>
        /\ sent[1].out # None
        /\ Out.batch.cancellations = <<[market_id |-> market.id, order_id |-> ""]>>
        /\ Out.batch.amendments = <<>>
        /\ Len(Submissions) = 10
        /\ \A i \in 1..10 :
              /\ Submissions[i].market_id = market.id
              /\ Submissions[i].type = "Limit"
              /\ Submissions[i].time_in_force = "Gtc"
              /\ Submissions[i].expires_at = 0
              /\ Submissions[i].pegged_order = None
              /\ Submissions[i].reference = "VEGA_RUST_MM_SIMPLE"
        /\ \A L \in 1..5 :
              /\ Submissions[L].side = "Buy"
              /\ BidPrice(L) = LevelBid(sent[1].ref[1], L)
              /\ Submissions[5 + L].side = "Sell"
              /\ OfferPrice(L) = LevelOffer(sent[1].ref[2], L)

\* C14 witness: a batch built from the ticker (1, 2) and a short position
C14_Witness ==
    /\ sent # None
    /\ sent[1].ref = <<1, 2>>
    /\ sent[1].position = Some(ShortPosition)

\* the sum of the balances of the accounts under `keys` that are of the
\* settlement asset and owned by the caller, in asset units
RECURSIVE CachedBalance(_, _)
CachedBalance(map, keys) ==
    IF keys = {} THEN 0
    ELSE LET k == CHOOSE x \in keys : TRUE
         IN  CachedBalance(map, keys \ {k})
               + (IF map[k].asset = market.settlement_asset /\ map[k].owner = "pubkey"
                  THEN ParseDigits(0, map[k].balance) ELSE 0)

\* the position a run read, as (open volume, entry price) in protocol units
ReadVolume == IF sent[1].position = None THEN 0 ELSE sent[1].position[1].open_volume

ReadEntryPrice ==
    IF sent[1].position = None THEN 0
    ELSE ParseDigits(0, sent[1].position[1].average_entry_price)

\* x = n / d for the model's rational x
IsRatio(x, n, d) == x[1] * d = n * x[2]

\* C15 (SpecStrategy): the balance of a run is the sum of the cached balances
\* of the settlement asset owned by the caller, its bid volume is
\* balance / 2 - volume * entry price and its offer volume
\* balance / 2 + volume * entry price, a missing position counting as 0 and 0;
\* the two add up to the balance, a long position takes from the bid volume
\* what it gives to the offer volume, and balance 1000, volume 2, entry price
\* 50 give 400 and 600.
C15_Budgets ==
    sent # None =>
        LET af == Pow10(assets[market.settlement_asset].decimals)
            qf == Pow10(market.position_decimal_places)
            pf == PriceFactor
            A == CachedBalance(sent[1].accounts, DOMAIN sent[1].accounts)
            v == ReadVolume
            p == ReadEntryPrice
        IN  /\ sent[1].out # None
            /\ IsRatio(Out.balance, A, af)
            /\ IsRatio(Out.bid_volume, A * qf * pf - 2 * af * v * p, 2 * af * qf * pf)
            /\ IsRatio(Out.offer_volume, A * qf * pf + 2 * af * v * p, 2 * af * qf * pf)
            /\ F64Add(Out.bid_volume, Out.offer_volume) = Out.balance
            /\ v > 0 /\ p > 0 =>
                  /\ F64Sub(F64Mul(Out.balance, F64(1, 2)), Out.bid_volume)
                        = F64Sub(Out.offer_volume, F64Mul(Out.balance, F64(1, 2)))
                  /\ F64Sub(Out.offer_volume, Out.bid_volume)[1] > 0
            /\ IsRatio(Out.balance, 1000, 1) /\ v = 2 * qf /\ p = 50 * pf =>
                  Out.bid_volume = F64(400, 1) /\ Out.offer_volume = F64(600, 1)

\* C15 witness: a run that read the long position (volume 2, entry price 50)
\* and the accounts as fetched: 6000 and 4000 of the settlement asset at one
\* decimal, one account of another asset and one of another owner
C15_Witness ==
    /\ sent # None
    /\ sent[1].position = Some(LongPosition)
    /\ sent[1].accounts = new_accounts(StrategyAccounts)
    /\ Out.balance = F64(1000, 1)

C17_UnsetPriceNotGated ==
    /\ [][pc["strategy"] = "get_ref" /\ pc'["strategy"] # "get_ref" /\ ~rpLock.poisoned =>
             pc'["strategy"] = "get_position"]_vars
    /\ [](sent # None /\ sent[1].ref = <<0, 0>> =>
             /\ sent[1].out # None
             /\ Len(Submissions) = 10
             /\ \A i \in 1..10 : Submissions[i].price = <<"0">>)

\* C17 witness: a batch was sent and no ticker frame was ever applied
C17_Witness ==
    /\ sent # None
    /\ sent[1].ref = <<0, 0>>
    /\ rpApplied = <<0, 0>>
    /\ rp = [bid_price |-> 0, ask_price |-> 0]

\* C19 (SpecStrategy): between its read of the position and its read of the
\* accounts the run holds no guard of the store, so that both reconcilers can
\* write there; each of the two values it read was in the store.  (That the
\* two were never there together is the witness.)
C19_ReadsUnderSeparateLocks ==
    /\ [](pc["strategy"] = "get_balance" =>
             /\ storeLock.holder # "strategy"
             /\ ~storeLock.poisoned /\ pc["positions"] = "next" /\ pc["accounts"] = "next" =>
                   /\ ENABLED update_position_item(SnapshotItem(<<LongPosition>>))
                   /\ ENABLED update_accounts_item(
                                UpdatesItem(<<GeneralAccount(<<"8", "0", "0", "0">>)>>)))
    /\ [](sent # None =>
             /\ \E c \in coexisted : c[1] = sent[1].position
             /\ \E c \in coexisted : c[2] = sent[1].accounts)

\* C19 witness: a batch built from a position and accounts that the store
\* never held together: the position was replaced and then the accounts were
\* updated between the two reads
C19_Witness ==
    /\ sent # None
    /\ ~sent[1].coexisted
    /\ sent[1].out # None

\* the positions of run_strategy
RunPcs == {"get_market", "get_asset", "get_ref", "get_position", "get_balance", "send"}

\* C20 (SpecStrategy): at most one run is in progress; while a run is in
\* progress, its wait for clt.send included, the timer starts no run; a run
\* starts only from the timer wait, with no run in progress.
C20_RunsNeverOverlap ==
    /\ [](run.active <= 1)
    /\ [](pc["strategy"] \in RunPcs => run.active = 1 /\ ~ENABLED strategy_tick)
    /\ [][pc'["strategy"] = "get_market" /\ pc["strategy"] # "get_market" =>
             pc["strategy"] = "tick" /\ run.active = 0]_vars

\* C20 witness: a second run waits for clt.send after the first one's batch
\* went out, and the reference price has changed since the run read it
C20_Witness ==
    /\ pc["strategy"] = "send"
    /\ run.active = 1
    /\ sent # None
    /\ run.ref # RefPrice_get(rp)

-----------------------------------------------------------------------------
(* Claims about an abort inside a critical section *)

\* where task t is about to call store.lock().unwrap()
StoreLockPcs(t) ==
    IF t \in BatchReconcilers THEN {"next"}
    ELSE IF t = "market_data" THEN {"saving"}
    ELSE IF t = "strategy" THEN {"get_market", "get_asset", "get_position", "get_balance"}
    ELSE IF t = "api" THEN {ApiFields[i] : i \in 1..Len(ApiFields)}
    ELSE {}

\* where task t is once its lock().unwrap() has panicked: the request of the
\* handler is over, the other tasks are gone
EndedPc(t) == IF t = "api" THEN "idle" ELSE "panicked"

\* what C22 says of the store and of its readers and writers, but for the
\* strategy's submissions
AbortPoisonsStore ==
    /\ [][/\ pc["orders"] = "saving" /\ pc'["orders"] = "panicked" =>
                storeLock.holder = "orders" /\ storeLock'.poisoned
          /\ storeLock.poisoned =>
                /\ UNCHANGED storeData
                /\ \A t \in Tasks :
                      pc[t] \in StoreLockPcs(t) /\ pc'[t] # pc[t] => pc'[t] = EndedPc(t)]_vars
    /\ [](storeLock.poisoned => storeLock.holder = NoTask /\ pc["orders"] = "panicked")
    /\ [](~tornRead)

\* C22 (SpecStoreLock), as claimed: save_orders aborts on an unrecognised status
\* with the guard alive, which poisons the lock; from then on the store is not
\* written, each lock().unwrap() ends its task, no reader has seen the batch
\* applied in part, and no batch is handed to clt.send.
C22_NoBatchAfterAbort ==
    /\ AbortPoisonsStore
    /\ [][storeLock.poisoned /\ pc["strategy"] = "send" => pc'["strategy"] = "send"]_vars

\* C22 (SpecStoreLock), amended: as above, but the run that was past its last
\* store read when save_orders aborted still hands its batch to clt.send; no
\* run gets to clt.send after the abort.
C22_NoRunReachesSendAfterAbort ==
    /\ AbortPoisonsStore
    /\ [][storeLock.poisoned /\ pc'["strategy"] = "send" => pc["strategy"] = "send"]_vars

\* C22 witness: save_orders inserted A and aborted on B; the strategy and the
\* accounts reconciler ended on the poisoned lock, the store holds the batch
\* applied in part
C22_Witness ==
    /\ storeLock.poisoned
    /\ HalfApplied("orders")
    /\ DOMAIN orders = {"A"}
    /\ pc["orders"] = "panicked"
    /\ pc["strategy"] = "panicked"
    /\ pc["accounts"] = "panicked"

-----------------------------------------------------------------------------
(* Claims about the size of the orders *)

\* twice the budget of a side at the scale of the three factors: the balance
\* the run read, less (bid) or plus (offer) twice the notional of its position
BudgetNumerator(side) ==
    LET af == Pow10(assets[market.settlement_asset].decimals)
        qf == Pow10(market.position_decimal_places)
        A == CachedBalance(sent[1].accounts, DOMAIN sent[1].accounts)
        n == 2 * af * ReadVolume * ReadEntryPrice
    IN  IF side = "Buy" THEN A * qf * PriceFactor - n ELSE A * qf * PriceFactor + n

\* (budget / 5) * ref at position scale, rounded down; 0 for a negative budget
SideSize(side, ref) ==
    LET af == Pow10(assets[market.settlement_asset].decimals)
    IN  IF BudgetNumerator(side) < 0 THEN 0
        ELSE (BudgetNumerator(side) * ref) \div (10 * af * PriceFactor)

\* C23 (SpecStrategy): the 5 orders of a side have one size, the integer part
\* of (budget of the side / 5) * reference price of the side at position
\* scale; a side of negative budget still has its 5 orders, each of size 0.
C23_SideSize ==
    sent # None =>
        /\ sent[1].out # None
        /\ Len(Submissions) = 10
        /\ \A L \in 1..5 :
              /\ Submissions[L].side = "Buy"
              /\ Submissions[L].size = SideSize("Buy", sent[1].ref[1])
              /\ Submissions[5 + L].side = "Sell"
              /\ Submissions[5 + L].size = SideSize("Sell", sent[1].ref[2])
        /\ Out.bid_volume[1] < 0 => \A L \in 1..5 : Submissions[L].size = 0
        /\ Out.offer_volume[1] < 0 => \A L \in 1..5 : Submissions[5 + L].size = 0

\* C23 witness: a run that read the long position of notional 1000 and the
\* balance 1000 at the reference price 100: its bid budget is -500, its bids
\* have size 0 and its offers a positive size
C23_Witness ==
    /\ sent # None
    /\ sent[1].position = Some(BigLongPosition)
    /\ sent[1].ref = <<100, 100>>
    /\ Out.bid_volume = F64(-500, 1)
    /\ Submissions[1].size = 0
    /\ Submissions[6].size = 300000

-----------------------------------------------------------------------------
(* Claims about the end of the feed task *)

\* C24 (SpecFeedEnd): the step that ends the feed task (a failed connection,
\* handshake or read) moves no other task and changes neither the pair nor a
\* lock; the task then stays ended and the pair keeps its value, the last one
\* applied or (0, 0); a run that reads the pair after that goes on to read the
\* position with that pair, and its batch is priced from it.
C24_FeedEndLeavesStalePair ==
    /\ [][/\ pc'["feed"] = "done" /\ pc["feed"] # "done" => OnlyMoves("feed")
          /\ pc["feed"] = "done" => pc'["feed"] = "done" /\ rp' = rp
          /\ pc["feed"] = "done" /\ pc["strategy"] = "get_ref" /\ pc'["strategy"] # "get_ref" =>
                /\ pc'["strategy"] = "get_position"
                /\ run'.ref = RefPrice_get(rp)]_vars
    /\ [](pc["feed"] = "done" => RefPrice_get(rp) = rpApplied /\ ~rpLock.poisoned)
    /\ [](sent # None /\ sent[1].feed = "done" =>
             /\ sent[1].out # None
             /\ sent[1].ref = RefPrice_get(rp)
             /\ \A L \in 1..5 :
                   /\ BidPrice(L) = LevelBid(rp.bid_price, L)
                   /\ OfferPrice(L) = LevelOffer(rp.ask_price, L))

\* C24 witness: the feed ended after the ticker (1, 2); a run that started
\* after that has sent its batch and the next one is at clt.send
C24_Witness ==
    /\ pc["feed"] = "done"
    /\ rp = [bid_price |-> 1, ask_price |-> 2]
    /\ sent # None
    /\ sent[1].feed = "done"
    /\ sent[1].ref = <<1, 2>>
    /\ pc["strategy"] = "send"
    /\ run.feed = "done"

-----------------------------------------------------------------------------
(* SpecLocks: every lock().unwrap() statement of the program in two steps,  *)
(* the lock() and the drop of its guard at the end of the statement (or in  *)
(* the unwinding of a panic inside it).  The values read and written are    *)
(* those of the other specifications; here the store and the pair are left  *)
(* alone and only the two mutexes and the tasks move.                       *)

Stmt(t, at, in, lock, next, panics) ==
    [task |-> t, at |-> at, in |-> in, lock |-> lock, next |-> next, panics |-> panics]

\* the statements that lock: the task, where it is before the lock() and
\* inside the statement, the mutex, where it is after the statement, and
\* whether an unwrap() inside the statement can panic
LockStatements ==
    { Stmt("strategy", "get_market", "in_get_market", "store", "get_asset", FALSE),
      Stmt("strategy", "get_asset", "in_get_asset", "store", "get_ref", TRUE),
      Stmt("strategy", "get_ref", "in_get_ref", "rp", "get_position", FALSE),
      Stmt("strategy", "get_position", "in_get_position", "store", "get_balance", TRUE),
      Stmt("strategy", "get_balance", "in_get_balance", "store", "send", TRUE),
      Stmt("api", "ref", "in_ref", "rp", "position", FALSE),
      Stmt("api", "position", "in_position", "store", "accounts", FALSE),
      Stmt("api", "accounts", "in_accounts", "store", "orders", FALSE),
      Stmt("api", "orders", "in_orders", "store", "market", FALSE),
      Stmt("api", "market", "in_market", "store", "market_data", FALSE),
      Stmt("api", "market_data", "in_market_data", "store", "assets", FALSE),
      Stmt("api", "assets", "in_assets", "store", "idle", FALSE),
      Stmt("feed", "read", "in_set", "rp", "read", TRUE),
      Stmt("orders", "next", "in_save", "store", "next", TRUE),
      Stmt("accounts", "next", "in_save", "store", "next", FALSE),
      Stmt("positions", "next", "in_save", "store", "next", FALSE),
      Stmt("market_data", "next", "in_save", "store", "next", FALSE) }

\* where task t is once a lock().unwrap() or an unwrap() inside a statement
\* has panicked: the request of the handler is over, the other tasks are gone
AfterPanic(t) == IF t = "api" THEN "idle" ELSE "panicked"

MutexOf(s) == IF s.lock = "store" THEN storeLock ELSE rpLock

\* x.lock().unwrap(): blocks while a guard is alive, panics on a poisoned mutex
mutex_lock(s) ==
    /\ Running
    /\ pc[s.task] = s.at
    /\ CanLock(MutexOf(s))
    /\ IF MutexOf(s).poisoned
       THEN /\ pc' = [pc EXCEPT ![s.task] = AfterPanic(s.task)]
            /\ UNCHANGED <<storeLock, rpLock>>
       ELSE /\ pc' = [pc EXCEPT ![s.task] = s.in]
            /\ storeLock' = IF s.lock = "store" THEN Acquire(storeLock, s.task) ELSE storeLock
            /\ rpLock' = IF s.lock = "rp" THEN Acquire(rpLock, s.task) ELSE rpLock
    /\ UNCHANGED <<storeData, rp, feedPending, rpApplied, batch, tornRead, mdPending, startVars>>

guard_kept_after_statement(s) ==
    /\ Running
    /\ pc[s.task] = s.in
    /\ pc' = [pc EXCEPT ![s.task] = s.next]
    /\ UNCHANGED <<storeLock, rpLock>>
    /\ UNCHANGED <<storeData, rp, feedPending, rpApplied, batch, tornRead, mdPending, startVars>>

\* the end of the statement: the guard, a temporary, is dropped
guard_drop(s) ==
    /\ Running
    /\ pc[s.task] = s.in
    /\ pc' = [pc EXCEPT ![s.task] = s.next]
    /\ storeLock' = IF s.lock = "store" THEN Release(storeLock) ELSE storeLock
    /\ rpLock' = IF s.lock = "rp" THEN Release(rpLock) ELSE rpLock
    /\ UNCHANGED <<storeData, rp, feedPending, rpApplied, batch, tornRead, mdPending, startVars>>

\* an unwrap() inside the statement panics: the guard is dropped in the
\* unwinding and the mutex is poisoned
guard_unwind(s) ==
    /\ Running
    /\ pc[s.task] = s.in
    /\ s.panics
    /\ pc' = [pc EXCEPT ![s.task] = "panicked"]
    /\ storeLock' = IF s.lock = "store" THEN ReleasePanicking(storeLock) ELSE storeLock
    /\ rpLock' = IF s.lock = "rp" THEN ReleasePanicking(rpLock) ELSE rpLock
    /\ UNCHANGED <<storeData, rp, feedPending, rpApplied, batch, tornRead, mdPending, startVars>>

InitLocks == InitStoreLock

NextLocks ==
    \/ \E s \in LockStatements : mutex_lock(s) /\ UNCHANGED hist
    \/ \E s \in LockStatements : guard_drop(s) /\ UNCHANGED hist
    \/ \E s \in LockStatements : guard_unwind(s) /\ UNCHANGED hist
    \/ strategy_tick /\ UNCHANGED hist
    \/ \E ok \in BOOLEAN : strategy_send(ok) /\ UNCHANGED hist
    \/ api_request /\ UNCHANGED hist

SpecLocks == InitLocks /\ [][NextLocks]_vars

\* the guards task t holds
GuardsOf(t) ==
    (IF storeLock.holder = t THEN {"store"} ELSE {}) \cup (IF rpLock.holder = t THEN {"rp"} ELSE {})

\* C21 (SpecLocks): a task that is about to lock holds no guard, so it neither
\* locks one mutex under the other nor locks again a mutex it holds; a task
\* holds a guard only inside the statement that took it, and never two; and
\* whoever holds a mutex that another task waits for can drop its guard, so no
\* task waits for ever on a cycle of locks.
C21_NoNestedLocking ==
    /\ \A t \in Tasks : Cardinality(GuardsOf(t)) <= 1
    /\ \A s \in LockStatements : pc[s.task] = s.at => GuardsOf(s.task) = {}
    /\ \A t \in Tasks :
          GuardsOf(t) # {} =>
              \E s \in LockStatements : s.task = t /\ pc[t] = s.in /\ GuardsOf(t) = {s.lock}
    /\ \A s \in LockStatements :
          pc[s.task] = s.at /\ ~CanLock(MutexOf(s)) =>
              /\ MutexOf(s).holder # s.task
              /\ \E h \in LockStatements :
                    /\ h.task = MutexOf(s).holder
                    /\ pc[h.task] = h.in
                    /\ ENABLED guard_drop(h)

\* C21 witness: the orders reconciler is inside save_orders and the feed
\* inside RefPrice::set, while the strategy and the handler wait for the store
C21_Witness ==
    /\ storeLock.holder = "orders"
    /\ rpLock.holder = "feed"
    /\ pc["strategy"] = "get_position"
    /\ pc["api"] = "accounts"
    /\ pc["accounts"] = "next"

=============================================================================
